---------------------------- MODULE Spec2Model ----------------------------
(***************************************************************************)
(* A model of the gateway layer of apocalypse-the-server (server.js and    *)
(* tools.js): the rate limiter, the admission counter, the request         *)
(* lifecycle of the HTTP handler and processRequest, the wire codec and    *)
(* the file tools' path validator.                                         *)
(*                                                                         *)
(* Text is modelled as a sequence of one-character strings, so that the    *)
(* code's split / indexOf / substring / trim steps are computed and not    *)
(* assumed.  Sizes (bytes) are counted in abstract units.                  *)
(***************************************************************************)
EXTENDS Integers, Sequences, FiniteSets, TLC

(***************************************************************************)
(* Program constants, scaled down so that every limit is reached.          *)
(***************************************************************************)
MAX_REQUEST_SIZE == 2
MAX_RESPONSE_SIZE == 1
MAX_PROMPT_SIZE == 1
MAX_CONCURRENT_REQUESTS == 2
RATE_LIMIT_WINDOW == 2
RATE_LIMIT_MAX_REQUESTS == 2

(***************************************************************************)
(* Bounds of the model.                                                    *)
(***************************************************************************)
NumRequests == 3
FullRequests == 1
StreamRequests == 1
MaxChunk == 2
MaxNow == 5
MaxCalls == 5
MaxTimedNow == 8
MaxLate == 1

Min(S) == CHOOSE x \in S : \A y \in S : x <= y

(***************************************************************************)
(* String primitives of JavaScript, on sequences of characters.            *)
(* Positions are 1-based here; 0 stands for JavaScript's -1.               *)
(***************************************************************************)
CR == "\r"
LF == "\n"
CRLF == <<CR, LF>>

IsPrefixAt(s, sep, i) ==
    /\ i + Len(sep) - 1 <= Len(s)
    /\ SubSeq(s, i, i + Len(sep) - 1) = sep

\* String.prototype.indexOf
IndexOf(s, sep) ==
    LET I == {i \in 1..Len(s) : IsPrefixAt(s, sep, i)}
    IN  IF I = {} THEN 0 ELSE Min(I)

\* String.prototype.substring(from) with a 1-based start
Substring(s, from) == SubSeq(s, from, Len(s))

\* String.prototype.split with a non-empty separator
RECURSIVE Split(_, _)
Split(s, sep) ==
    LET i == IndexOf(s, sep)
    IN  IF i = 0 THEN <<s>>
        ELSE <<SubSeq(s, 1, i - 1)>> \o Split(Substring(s, i + Len(sep)), sep)

\* Array.prototype.join
RECURSIVE Join(_, _)
Join(parts, sep) ==
    IF parts = <<>> THEN <<>>
    ELSE IF Len(parts) = 1 THEN parts[1]
    ELSE parts[1] \o sep \o Join(Tail(parts), sep)

WhiteSpace == {" ", "\t", CR, LF}

\* String.prototype.trim
RECURSIVE TrimStart(_)
TrimStart(s) ==
    IF s # <<>> /\ s[1] \in WhiteSpace THEN TrimStart(Tail(s)) ELSE s

RECURSIVE TrimEnd(_)
TrimEnd(s) ==
    IF s # <<>> /\ s[Len(s)] \in WhiteSpace
    THEN TrimEnd(SubSeq(s, 1, Len(s) - 1)) ELSE s

Trim(s) == TrimEnd(TrimStart(s))

UpperLetters == <<"A", "B", "C", "D", "E", "F", "G", "H", "I", "J", "K", "L", "M",
                  "N", "O", "P", "Q", "R", "S", "T", "U", "V", "W", "X", "Y", "Z">>
LowerLetters == <<"a", "b", "c", "d", "e", "f", "g", "h", "i", "j", "k", "l", "m",
                  "n", "o", "p", "q", "r", "s", "t", "u", "v", "w", "x", "y", "z">>

\* String.prototype.toLowerCase / toUpperCase, character by character
LowerChar(c) ==
    IF \E i \in 1..Len(UpperLetters) : UpperLetters[i] = c
    THEN LowerLetters[CHOOSE i \in 1..Len(UpperLetters) : UpperLetters[i] = c]
    ELSE c

UpperChar(c) ==
    IF \E i \in 1..Len(LowerLetters) : LowerLetters[i] = c
    THEN UpperLetters[CHOOSE i \in 1..Len(LowerLetters) : LowerLetters[i] = c]
    ELSE c

ToLowerCase(s) == [i \in 1..Len(s) |-> LowerChar(s[i])]

(***************************************************************************)
(* decodeURIComponent: a '%' must be followed by two hexadecimal digits    *)
(* (and the decoded bytes must be valid UTF-8; the digits used here only   *)
(* produce ASCII).  Anything else throws URIError.                         *)
(***************************************************************************)
HexDigits == {"4", "1"}

PercentChar(h1, h2) ==
    CASE h1 = "4" /\ h2 = "1" -> "A"
      [] h1 = "4" /\ h2 = "4" -> "D"
      [] h1 = "1" /\ h2 = "1" -> "DC1"
      [] OTHER -> "DC4"

RECURSIVE decodeURIComponent(_)
decodeURIComponent(s) ==
    IF s = <<>> THEN [ok |-> TRUE, val |-> <<>>]
    ELSE IF s[1] = "%"
    THEN IF Len(s) >= 3 /\ s[2] \in HexDigits /\ s[3] \in HexDigits
         THEN LET rest == decodeURIComponent(Substring(s, 4))
              IN  [ok |-> rest.ok,
                   val |-> <<PercentChar(s[2], s[3])>> \o rest.val]
         ELSE [ok |-> FALSE, val |-> <<>>]
    ELSE LET rest == decodeURIComponent(Tail(s))
         IN  [ok |-> rest.ok, val |-> <<s[1]>> \o rest.val]

(***************************************************************************)
(* JavaScript objects used as ordered maps: a sequence of <<key, value>>   *)
(* pairs with distinct keys, in insertion order.                           *)
(***************************************************************************)
HasKey(obj, k) == \E i \in 1..Len(obj) : obj[i][1] = k

Get(obj, k) == obj[CHOOSE i \in 1..Len(obj) : obj[i][1] = k][2]

\* obj[k] = v
SetKey(obj, k, v) ==
    IF HasKey(obj, k)
    THEN [i \in 1..Len(obj) |-> IF obj[i][1] = k THEN <<k, v>> ELSE obj[i]]
    ELSE Append(obj, <<k, v>>)

(***************************************************************************)
(* parseHttpRequest.  The result is [ok |-> TRUE, ...fields] or            *)
(* [ok |-> FALSE, error |-> message of the Error thrown].                  *)
(***************************************************************************)
ParseFailure(msg) ==
    [ok |-> FALSE, error |-> msg, method |-> <<>>, path |-> <<>>,
     fullPath |-> <<>>, query |-> <<>>, version |-> <<>>, headers |-> <<>>,
     body |-> <<>>]

\* queryString.split('&').forEach(...): the query object after the params
\* from position i on, or a failure when decodeURIComponent throws
RECURSIVE parseQuery(_, _, _)
parseQuery(params, i, query) ==
    IF i > Len(params) THEN [ok |-> TRUE, val |-> query]
    ELSE LET kv == Split(params[i], <<"=">>)
             key == kv[1]
             hasValue == Len(kv) >= 2 /\ kv[2] # <<>>
             dk == decodeURIComponent(key)
             dv == IF hasValue THEN decodeURIComponent(kv[2])
                   ELSE [ok |-> TRUE, val |-> <<>>]
         IN  IF key = <<>> THEN parseQuery(params, i + 1, query)
             ELSE IF ~dk.ok \/ ~dv.ok THEN [ok |-> FALSE, val |-> <<>>]
             ELSE parseQuery(params, i + 1, SetKey(query, dk.val, dv.val))

\* a header loop that reads on past empty lines
RECURSIVE parseHeadersPastEmptyLines(_, _, _)
parseHeadersPastEmptyLines(rest, i, headers) ==
    IF i > Len(rest) THEN <<headers, i>>
    ELSE LET colonIndex == IndexOf(rest[i], <<":">>)
             headerName == ToLowerCase(Trim(SubSeq(rest[i], 1, colonIndex - 1)))
             headerValue == Trim(Substring(rest[i], colonIndex + 1))
             old == IF HasKey(headers, headerName)
                    THEN Get(headers, headerName) ELSE <<>>
         IN  IF colonIndex > 1
             THEN parseHeadersPastEmptyLines(rest, i + 1,
                      SetKey(headers, headerName, Append(old, headerValue)))
             ELSE parseHeadersPastEmptyLines(rest, i + 1, headers)

\* the header loop: <<headers, index of the line the loop stopped at>>
RECURSIVE parseHeaders(_, _, _)
parseHeaders(rest, i, headers) ==
    IF i > Len(rest) \/ rest[i] = <<>> THEN <<headers, i>>
    ELSE LET colonIndex == IndexOf(rest[i], <<":">>)
             headerName == ToLowerCase(Trim(SubSeq(rest[i], 1, colonIndex - 1)))
             headerValue == Trim(Substring(rest[i], colonIndex + 1))
             old == IF HasKey(headers, headerName)
                    THEN Get(headers, headerName) ELSE <<>>
         IN  IF colonIndex > 1
             THEN parseHeaders(rest, i + 1,
                      SetKey(headers, headerName, Append(old, headerValue)))
             ELSE parseHeaders(rest, i + 1, headers)

parseHttpRequest(rawRequest) ==
    IF rawRequest = <<>>
    THEN ParseFailure("Invalid request: empty or non-string input")
    ELSE
    LET lines == Split(rawRequest, CRLF)
        requestLine == lines[1]
        rest == Tail(lines)
        requestParts == Split(requestLine, <<" ">>)
    IN  IF requestLine = <<>>
        THEN ParseFailure("Invalid request: missing request line")
        ELSE IF Len(requestParts) # 3
        THEN ParseFailure("Invalid request line: expected 3 parts")
        ELSE
        LET method == requestParts[1]
            fullPath == requestParts[2]
            version == requestParts[3]
            queryIndex == IndexOf(fullPath, <<"?">>)
            path == IF queryIndex > 0 THEN SubSeq(fullPath, 1, queryIndex - 1)
                    ELSE fullPath
            queryString == IF queryIndex > 0
                           THEN Substring(fullPath, queryIndex + 1) ELSE <<>>
            query == IF queryString # <<>>
                     THEN parseQuery(Split(queryString, <<"&">>), 1, <<>>)
                     ELSE [ok |-> TRUE, val |-> <<>>]
            hdr == parseHeaders(rest, 1, <<>>)
            body == Join(SubSeq(rest, hdr[2] + 1, Len(rest)), CRLF)
        IN  IF ~query.ok THEN ParseFailure("URI malformed")
            ELSE [ok |-> TRUE, error |-> "", method |-> method, path |-> path,
                  fullPath |-> fullPath, query |-> query.val,
                  version |-> version, headers |-> hdr[1], body |-> body]

(***************************************************************************)
(* Numbers as decimal text and back (template literals, parseInt).         *)
(***************************************************************************)
DigitChars == <<"0", "1", "2", "3", "4", "5", "6", "7", "8", "9">>

IsDigit(c) == \E i \in 1..10 : DigitChars[i] = c

DigitValue(c) == (CHOOSE i \in 1..10 : DigitChars[i] = c) - 1

RECURSIVE NumberToText(_)
NumberToText(n) ==
    IF n < 10 THEN <<DigitChars[n + 1]>>
    ELSE NumberToText(n \div 10) \o <<DigitChars[(n % 10) + 1]>>

RECURSIVE ParseIntFrom(_, _)
ParseIntFrom(digits, acc) ==
    IF digits = <<>> THEN acc
    ELSE ParseIntFrom(Tail(digits), 10 * acc + DigitValue(digits[1]))

\* parseInt of a run of digits
ParseInt(digits) == ParseIntFrom(digits, 0)

\* Buffer.byteLength(text, 'utf-8'): an element of a text is one character,
\* or a literal run of ASCII characters that the code never looks into
TwoByteChars == {"é"}

\* the length in characters
RECURSIVE CharacterLength(_)
CharacterLength(text) ==
    IF text = <<>> THEN 0
    ELSE (IF text[1] \in TwoByteChars THEN 1 ELSE Len(text[1]))
         + CharacterLength(Tail(text))

RECURSIVE ByteLength(_)
ByteLength(text) ==
    IF text = <<>> THEN 0
    ELSE (IF text[1] \in TwoByteChars THEN 2 ELSE Len(text[1]))
         + ByteLength(Tail(text))

(***************************************************************************)
(* Response envelopes.  preamble.version and preamble.reason are texts     *)
(* (<<>> when missing), preamble.status a number (0 when missing); headers *)
(* is an ordered map name -> sequence of values; body is absent, a string  *)
(* or an object {error, message}.                                          *)
(***************************************************************************)
HTTP11 == <<"H", "T", "T", "P", "/", "1", ".", "1">>
ContentType == <<"C", "o", "n", "t", "e", "n", "t", "-", "T", "y", "p", "e">>
ContentLength == <<"C", "o", "n", "t", "e", "n", "t", "-", "L", "e", "n", "g", "t", "h">>
XRequestId == <<"X", "-", "R", "e", "q", "u", "e", "s", "t", "-", "I", "d">>
RetryAfter == <<"R", "e", "t", "r", "y", "-", "A", "f", "t", "e", "r">>
SetCookie == <<"S", "e", "t", "-", "C", "o", "o", "k", "i", "e">>

statusReasons(status) ==
    CASE status = 400 -> "Bad Request"
      [] status = 401 -> "Unauthorized"
      [] status = 403 -> "Forbidden"
      [] status = 404 -> "Not Found"
      [] status = 405 -> "Method Not Allowed"
      [] status = 408 -> "Request Timeout"
      [] status = 413 -> "Payload Too Large"
      [] status = 429 -> "Too Many Requests"
      [] status = 500 -> "Internal Server Error"
      [] status = 501 -> "Not Implemented"
      [] status = 503 -> "Service Unavailable"
      [] status = 504 -> "Gateway Timeout"
      [] OTHER -> "Error"

createErrorResponse(status, message) ==
    [hasPreamble |-> TRUE,
     preamble |-> [version |-> HTTP11, status |-> status,
                   reason |-> <<statusReasons(status)>>],
     headers |-> << <<ContentType, << <<"application/json">> >> >> >>,
     body |-> [kind |-> "object", error |-> statusReasons(status),
               message |-> message, text |-> <<>>]]

\* JSON.stringify of an {error, message} object
JSONStringify(body) ==
    <<"{", "\"error\":\"", body.error, "\",\"message\":\"", body.message, "\"}">>

\* name.split('-').map(capitalise first character).join('-')
RECURSIVE Capitalise(_)
Capitalise(parts) ==
    IF parts = <<>> THEN <<>>
    ELSE << (IF parts[1] = <<>> THEN <<>>
             ELSE <<UpperChar(parts[1][1])>> \o Tail(parts[1])) >>
         \o Capitalise(Tail(parts))

\* a capitalisation that keeps only the part before the first '-'
properNameFirstPart(name) == Capitalise(Split(name, <<"-">>))[1]

properName(name) == Join(Capitalise(Split(name, <<"-">>)), <<"-">>)

\* a first loop that keeps only the values of the last casing of a name
RECURSIVE normalizeHeadersLastWins(_, _, _)
normalizeHeadersLastWins(headers, i, normalizedHeaders) ==
    IF i > Len(headers) THEN normalizedHeaders
    ELSE normalizeHeadersLastWins(headers, i + 1,
             SetKey(normalizedHeaders, ToLowerCase(headers[i][1]), headers[i][2]))

\* first loop of formatHttpResponse: merge the values by lowercased name
RECURSIVE normalizeHeaders(_, _, _)
normalizeHeaders(headers, i, normalizedHeaders) ==
    IF i > Len(headers) THEN normalizedHeaders
    ELSE LET lowerName == ToLowerCase(headers[i][1])
             old == IF HasKey(normalizedHeaders, lowerName)
                    THEN Get(normalizedHeaders, lowerName) ELSE <<>>
         IN  normalizeHeaders(headers, i + 1,
                 SetKey(normalizedHeaders, lowerName, old \o headers[i][2]))

\* second loop: one "Name: value" line per value
RECURSIVE valueLines(_, _)
valueLines(name, values) ==
    IF values = <<>> THEN <<>>
    ELSE << name \o <<":", " ">> \o values[1] >> \o valueLines(name, Tail(values))

RECURSIVE formatHeaderLines(_)
formatHeaderLines(normalizedHeaders) ==
    IF normalizedHeaders = <<>> THEN <<>>
    ELSE valueLines(properName(normalizedHeaders[1][1]), normalizedHeaders[1][2])
         \o formatHeaderLines(Tail(normalizedHeaders))

\* formatHttpResponse: [ok |-> TRUE, text |-> the response text], or
\* [ok |-> FALSE, error |-> message of the Error thrown]
formatHttpResponse(responseJson) ==
    IF \/ ~responseJson.hasPreamble
       \/ responseJson.preamble.version = <<>>
       \/ responseJson.preamble.status = 0
       \/ responseJson.preamble.reason = <<>>
    THEN [ok |-> FALSE, text |-> <<>>,
          error |-> "Invalid response: missing or incomplete preamble"]
    ELSE
    LET preamble == responseJson.preamble
        statusLine == preamble.version \o <<" ">> \o NumberToText(preamble.status)
                      \o <<" ">> \o preamble.reason
        normalizedHeaders == normalizeHeaders(responseJson.headers, 1, <<>>)
        body == responseJson.body
        bodyString == CASE body.kind = "absent" -> <<>>
                        [] body.kind = "string" -> body.text
                        [] OTHER -> JSONStringify(body)
        headerLines ==
            formatHeaderLines(normalizedHeaders)
            \o (IF ~HasKey(normalizedHeaders, ToLowerCase(ContentLength))
                   /\ bodyString # <<>>
                THEN << ContentLength \o <<":", " ">>
                        \o NumberToText(ByteLength(bodyString)) >>
                ELSE <<>>)
    IN  [ok |-> TRUE, error |-> "",
         text |-> Join(<<statusLine>> \o headerLines \o << <<>>, bodyString >>, CRLF)]

(***************************************************************************)
(* The delegate's output.  The text accumulated from the stream is a       *)
(* sequence of blocks, each one size unit long: free text, or the JSON     *)
(* text of one object.  extractJsonResponse returns the first object it    *)
(* can parse that has a truthy preamble, or a generic 500 envelope.        *)
(***************************************************************************)
Blocks == {"text", "ok", "spoof", "nostatus", "cookies", "status700", "status99"}

NoBody == [kind |-> "absent", error |-> "", message |-> "", text |-> <<>>]
StringBody(t) == [kind |-> "string", error |-> "", message |-> "", text |-> t]

Envelope(b) ==
    CASE b = "ok" ->
           [hasPreamble |-> TRUE,
            preamble |-> [version |-> HTTP11, status |-> 200, reason |-> <<"OK">>],
            headers |-> << <<ContentType, << <<"text/plain">> >> >> >>,
            body |-> StringBody(<<"h", "i">>)]
      [] b = "spoof" ->
           [hasPreamble |-> TRUE,
            preamble |-> [version |-> HTTP11, status |-> 200, reason |-> <<"OK">>],
            headers |-> << <<ToLowerCase(XRequestId), << <<"s", "p", "o", "o", "f">> >> >> >>,
            body |-> NoBody]
      [] b = "cookies" ->
           [hasPreamble |-> TRUE,
            preamble |-> [version |-> HTTP11, status |-> 201,
                          reason |-> <<"Created">>],
            headers |-> << <<SetCookie, << <<"a", "=", "1">>, <<"b", "=", "2">> >> >> >>,
            body |-> NoBody]
      [] b = "status99" ->
           [hasPreamble |-> TRUE,
            preamble |-> [version |-> HTTP11, status |-> 99, reason |-> <<"Odd">>],
            headers |-> <<>>,
            body |-> NoBody]
      [] b = "status700" ->
           [hasPreamble |-> TRUE,
            preamble |-> [version |-> HTTP11, status |-> 700, reason |-> <<"Odd">>],
            headers |-> <<>>,
            body |-> NoBody]
      [] b = "nostatus" ->
           [hasPreamble |-> TRUE,
            preamble |-> [version |-> HTTP11, status |-> 0, reason |-> <<"OK">>],
            headers |-> <<>>,
            body |-> NoBody]
      [] OTHER ->
           [hasPreamble |-> FALSE,
            preamble |-> [version |-> <<>>, status |-> 0, reason |-> <<>>],
            headers |-> <<>>,
            body |-> NoBody]

IsJsonWithPreamble(b) == b # "text" /\ Envelope(b).hasPreamble

extractJsonResponse(text) ==
    IF text = <<>> THEN createErrorResponse(500, "No response from Claude")
    ELSE LET I == {i \in 1..Len(text) : IsJsonWithPreamble(text[i])}
         IN  IF I = {}
             THEN createErrorResponse(500, "Failed to generate proper HTTP response")
             ELSE Envelope(text[Min(I)])

(***************************************************************************)
(* The rate limiter.  rateLimitMap is a function from the identities seen  *)
(* to [count, resetTime].                                                  *)
(***************************************************************************)
IPs == {"ipA", "ipB"}

\* checkRateLimit with the window test "now >= resetTime"
checkRateLimitEarlyReset(map, ip, t) ==
    IF ip \notin DOMAIN map \/ t >= map[ip].resetTime
    THEN [allowed |-> TRUE,
          map |-> [i \in DOMAIN map \cup {ip} |->
                     IF i = ip
                     THEN [count |-> 1, resetTime |-> t + RATE_LIMIT_WINDOW]
                     ELSE map[i]]]
    ELSE IF map[ip].count >= RATE_LIMIT_MAX_REQUESTS
    THEN [allowed |-> FALSE, map |-> map]
    ELSE [allowed |-> TRUE,
          map |-> [map EXCEPT ![ip].count = @ + 1]]

\* checkRateLimit that counts a denied call as well
checkRateLimitCountsDenied(map, ip, t) ==
    IF ip \notin DOMAIN map \/ t > map[ip].resetTime
    THEN [allowed |-> TRUE,
          map |-> [i \in DOMAIN map \cup {ip} |->
                     IF i = ip
                     THEN [count |-> 1, resetTime |-> t + RATE_LIMIT_WINDOW]
                     ELSE map[i]]]
    ELSE [allowed |-> map[ip].count < RATE_LIMIT_MAX_REQUESTS,
          map |-> [map EXCEPT ![ip].count = @ + 1]]

\* checkRateLimit whose new window starts from an empty table
checkRateLimitDropsOthers(map, ip, t) ==
    IF ip \notin DOMAIN map \/ t > map[ip].resetTime
    THEN [allowed |-> TRUE,
          map |-> [i \in {ip} |-> [count |-> 1, resetTime |-> t + RATE_LIMIT_WINDOW]]]
    ELSE IF map[ip].count >= RATE_LIMIT_MAX_REQUESTS
    THEN [allowed |-> FALSE, map |-> map]
    ELSE [allowed |-> TRUE,
          map |-> [map EXCEPT ![ip].count = @ + 1]]

\* checkRateLimit(ip) at time t: the result and the table it leaves
checkRateLimit(map, ip, t) ==
    IF ip \notin DOMAIN map \/ t > map[ip].resetTime
    THEN [allowed |-> TRUE,
          map |-> [i \in DOMAIN map \cup {ip} |->
                     IF i = ip
                     THEN [count |-> 1, resetTime |-> t + RATE_LIMIT_WINDOW]
                     ELSE map[i]]]
    ELSE IF map[ip].count >= RATE_LIMIT_MAX_REQUESTS
    THEN [allowed |-> FALSE, map |-> map]
    ELSE [allowed |-> TRUE,
          map |-> [map EXCEPT ![ip].count = @ + 1]]

\* a sweep that evicts every entry older than its first instant
sweepRateLimitMapEarly(map, t) ==
    [i \in {j \in DOMAIN map : ~(t > map[j].resetTime - RATE_LIMIT_WINDOW)} |-> map[i]]

\* a sweep that evicts an entry from its reset time on
sweepRateLimitMapAtReset(map, t) ==
    [i \in {j \in DOMAIN map : ~(t >= map[j].resetTime)} |-> map[i]]

\* a sweep that waits two window lengths after the reset time
sweepRateLimitMapLate(map, t) ==
    [i \in {j \in DOMAIN map : ~(t > map[j].resetTime + 2 * RATE_LIMIT_WINDOW)} |-> map[i]]

\* the setInterval callback at time t
sweepRateLimitMap(map, t) ==
    [i \in {j \in DOMAIN map : ~(t > map[j].resetTime + RATE_LIMIT_WINDOW)} |-> map[i]]

(***************************************************************************)
(* The ServerResponse object of Node, as far as the handler uses it.       *)
(* headers maps the lowercased name to the value last set under it.        *)
(***************************************************************************)
NewResponse ==
    [headersSent |-> FALSE, statusCode |-> 200, headers |-> <<>>,
     body |-> <<>>, sent |-> 0, wireStatus |-> 0]

TokenChars ==
    {UpperLetters[i] : i \in 1..26} \cup {LowerLetters[i] : i \in 1..26}
    \cup {DigitChars[i] : i \in 1..10} \cup {"-", "_", "."}

\* a setHeader that does not mind that the headers are sent
SetHeaderThrowsForBadText(res, name, value) ==
    \/ name = <<>>
    \/ \E i \in 1..Len(name) : name[i] \notin TokenChars
    \/ \E i \in 1..Len(value) : value[i] \in {CR, LF}

\* res.setHeader throws for a name that is not an HTTP token, for a value
\* with a control character, and once the headers are sent
SetHeaderThrows(res, name, value) ==
    \/ res.headersSent
    \/ name = <<>>
    \/ \E i \in 1..Len(name) : name[i] \notin TokenChars
    \/ \E i \in 1..Len(value) : value[i] \in {CR, LF}

setHeader(res, name, value) ==
    [res EXCEPT !.headers = SetKey(@, ToLowerCase(name), value)]

\* res.end throws (while writing the head) for a status code outside 100..999
EndThrows(res) == ~res.headersSent /\ (res.statusCode < 100 \/ res.statusCode > 999)

\* res.end(body); after the headers are sent a second end writes nothing
end(res, body) ==
    IF res.headersSent THEN res
    ELSE [res EXCEPT !.headersSent = TRUE, !.body = body, !.sent = @ + 1,
                     !.wireStatus = res.statusCode]

\* the fixed JSON error responses the handlers write themselves
sendJsonError(res, status, requestId, error, message) ==
    end(setHeader(setHeader([res EXCEPT !.statusCode = status],
                            ContentType, <<"application/json">>),
                  XRequestId, requestId),
        JSONStringify([error |-> error, message |-> message]))

(***************************************************************************)
(* The 'end' listener's writing of processRequest's result to the client   *)
(* (the statements after the await), including its catch block.            *)
(***************************************************************************)
HttpSlash == <<"H", "T", "T", "P", "/">>

IsDigitOrDot(c) == IsDigit(c) \/ c = "."

\* the last position of the longest run of digits-or-dots / digits that
\* starts at position a (a - 1 when the run is empty)
VersionRunEnd(line, a) ==
    LET J == {j \in a..Len(line) : \A k \in a..j : IsDigitOrDot(line[k])}
    IN  IF J = {} THEN a - 1 ELSE CHOOSE j \in J : \A k \in J : k <= j

DigitRunEnd(line, a) ==
    LET J == {j \in a..Len(line) : \A k \in a..j : IsDigit(line[k])}
    IN  IF J = {} THEN a - 1 ELSE CHOOSE j \in J : \A k \in J : k <= j

\* statusLine.match(/HTTP\/[\d.]+ (\d+)/): the digits captured, <<>> for no match
matchStatus(statusLine) ==
    LET Starts == {i \in 1..Len(statusLine) :
                     /\ IsPrefixAt(statusLine, HttpSlash, i)
                     /\ LET j == VersionRunEnd(statusLine, i + 5)
                        IN  /\ j >= i + 5
                            /\ j + 2 <= Len(statusLine)
                            /\ statusLine[j + 1] = " "
                            /\ IsDigit(statusLine[j + 2])}
    IN  IF Starts = {} THEN <<>>
        ELSE LET i == Min(Starts)
                 d == VersionRunEnd(statusLine, i + 5) + 2
             IN  SubSeq(statusLine, d, DigitRunEnd(statusLine, d))

\* the catch block of the 'end' listener
endCatch(res, requestId) ==
    IF ~res.headersSent
    THEN sendJsonError(res, 500, requestId, "Internal Server Error",
                       "An unexpected error occurred")
    ELSE res

\* the loop over the response's header lines: [threw, res]
RECURSIVE setResponseHeaders(_, _, _)
setResponseHeaders(res, responseHeaderLines, i) ==
    IF i > Len(responseHeaderLines) THEN [threw |-> FALSE, res |-> res]
    ELSE LET line == responseHeaderLines[i]
             colonIndex == IndexOf(line, <<":">>)
             name == Trim(SubSeq(line, 1, colonIndex - 1))
             value == Trim(Substring(line, colonIndex + 1))
         IN  IF colonIndex > 1
             THEN IF SetHeaderThrows(res, name, value)
                  THEN [threw |-> TRUE, res |-> res]
                  ELSE setResponseHeaders(setHeader(res, name, value),
                                          responseHeaderLines, i + 1)
             ELSE setResponseHeaders(res, responseHeaderLines, i + 1)

writeResponse(res, requestId, httpResponse) ==
    LET doubleCRLF == CRLF \o CRLF
        splitIndex == IndexOf(httpResponse, doubleCRLF)
        headerSection == SubSeq(httpResponse, 1, splitIndex - 1)
        responseBody == Substring(httpResponse, splitIndex + Len(doubleCRLF))
        responseHeaderLines == Split(headerSection, CRLF)
        statusMatch == matchStatus(responseHeaderLines[1])
        statusCode == IF statusMatch # <<>> THEN ParseInt(statusMatch) ELSE 200
        res1 == [res EXCEPT !.statusCode = statusCode]
        res2 == setHeader(res1, XRequestId, requestId)
        loop == setResponseHeaders(res2, responseHeaderLines, 2)
    IN  IF splitIndex = 0 THEN endCatch(res, requestId)
        ELSE IF SetHeaderThrows(res1, XRequestId, requestId)
        THEN endCatch(res1, requestId)
        ELSE IF loop.threw \/ EndThrows(loop.res)
        THEN endCatch(loop.res, requestId)
        ELSE end(loop.res, responseBody)

(***************************************************************************)
(* processRequest.                                                         *)
(***************************************************************************)
\* concurrentRequests++ and the finally block's concurrentRequests--
acquire(c) == c + 1

releaseSkipped(c) == c

release(c) == c - 1

\* the admission test at the head of processRequest
atCapacityOffByOne(c) == c > MAX_CONCURRENT_REQUESTS

atCapacity(c) == c >= MAX_CONCURRENT_REQUESTS

\* error.message.includes('Invalid re'), over the messages thrown
IncludesInvalidRe(message) ==
    message \in {"Invalid request: empty or non-string input",
                 "Invalid request: no lines found",
                 "Invalid request: missing request line",
                 "Invalid request line: expected 3 parts",
                 "Invalid request rejected by the delegate",
                 "Invalid response: missing or incomplete preamble"}

\* error.message.includes('Invalid request'), over the messages thrown
IncludesInvalidRequest(message) ==
    message \in {"Invalid request: empty or non-string input",
                 "Invalid request: no lines found",
                 "Invalid request: missing request line",
                 "Invalid request line: expected 3 parts",
                 "Invalid request rejected by the delegate"}

\* the outer catch block: the envelope returned for a thrown error
outerCatch(message) ==
    IF IncludesInvalidRequest(message)
    THEN createErrorResponse(400, "Malformed HTTP request")
    ELSE createErrorResponse(500, "Internal server error")

\* the inner catch block, for an error thrown while the delegate ran
innerCatch(aborted, message) ==
    IF aborted THEN createErrorResponse(504, "Gateway timeout")
    ELSE outerCatch(message)

\* the text returned for an envelope built by the code itself
errorText(status, message) == formatHttpResponse(createErrorResponse(status, message)).text

\* the length of the prompt's fixed template alone
templateLength(parsed) == 1

\* prompt.length, in size units: the fixed template counts as one unit and
\* the request description holds the whole body
promptLength(parsed) == 1 + Len(parsed.body)

\* what extractJsonResponse and formatHttpResponse make of the delegate's
\* text: no object with a preamble in it, an envelope formatHttpResponse
\* refuses, or an envelope it formats
extractionOf(fullResponse) ==
    IF \A i \in 1..Len(fullResponse) : ~IsJsonWithPreamble(fullResponse[i])
    THEN "no_envelope"
    ELSE IF formatHttpResponse(extractJsonResponse(fullResponse)).ok
    THEN "envelope"
    ELSE "incomplete_envelope"

\* the lines after the stream loop: extract the envelope and format it;
\* a throw of formatHttpResponse goes through both catch blocks
completeResponse(fullResponse, aborted) ==
    LET formatted == formatHttpResponse(extractJsonResponse(fullResponse))
    IN  IF formatted.ok THEN formatted.text
        ELSE formatHttpResponse(innerCatch(aborted, formatted.error)).text

(***************************************************************************)
(* State of the gateway.                                                   *)
(*   now                 Date.now(), in ticks                              *)
(*   rateLimitMap        the rate limiter's table                          *)
(*   concurrentRequests  the admission counter                             *)
(*   req[r]              the handler's locals for connection r             *)
(*   res[r]              the ServerResponse of connection r                *)
(*   proc[r]             the processRequest call made for r                *)
(*   hist[r]             the lifecycle events of r, in order (history)     *)
(*   calls               the checkRateLimit calls made so far (history)    *)
(*   fs                  the symbolic links of the file system             *)
(*   validation          the last validateAndResolvePath call              *)
(***************************************************************************)
VARIABLES now, rateLimitMap, concurrentRequests, req, res, proc, hist,
          calls, fs, validation, toolCalls, codec,
          isShuttingDown, connections, db, shutdown, sweepTimer

vars == <<now, rateLimitMap, concurrentRequests, req, res, proc, hist,
          calls, fs, validation, toolCalls, codec,
          isShuttingDown, connections, db, shutdown, sweepTimer>>

\* the state of the shutdown specification below
shutdownVars == <<isShuttingDown, connections, db, shutdown>>

\* the state of the rate-limiter, path-validation and shutdown specifications
\* below
others == <<calls, fs, validation, toolCalls, codec, shutdownVars, sweepTimer>>

Reqs == 1..NumRequests

\* generateRequestId(): one identifier per connection
requestIdOf(r) == <<"r", "e", "q", "_">> \o NumberToText(r)

UrlOk == <<"/", "a", "?", "k", "=", "v">>
UrlBadPercent == <<"/", "a", "?", "k", "=", "%">>
UrlSpace == <<"/", "a", " ", "b">>
Urls == {UrlOk, UrlBadPercent, UrlSpace}

\* the request text the 'end' listener builds from req.method, req.url,
\* req.httpVersion, req.headers and the collected body
fullRequestOf(url, rawRequest) ==
    <<"G", "E", "T", " ">> \o url \o <<" ">> \o HTTP11 \o CRLF
    \o <<"h", "o", "s", "t", ":", " ", "x">> \o CRLF \o CRLF \o rawRequest

NewReq ==
    [pc |-> "idle", ip |-> "none", url |-> <<>>, requestSize |-> 0, rawRequest |-> <<>>,
     requestAborted |-> FALSE, destroyed |-> FALSE, timedOut |-> FALSE]

NewProc ==
    [admission |-> "none", parse |-> "none", acquired |-> 0, released |-> 0,
     queries |-> 0, delegate |-> "none", aborted |-> FALSE, timer |-> FALSE,
     timers |-> 0, responseSize |-> 0, fullResponse |-> <<>>, sawError |-> FALSE,
     outcome |-> "none"]

\* the state after construction, but for the codec's input
InitServer ==
    /\ now = 0
    /\ rateLimitMap = <<>>
    /\ concurrentRequests = 0
    /\ req = [r \in Reqs |-> NewReq]
    /\ res = [r \in Reqs |-> NewResponse]
    /\ proc = [r \in Reqs |-> NewProc]
    /\ hist = [r \in Reqs |-> <<>>]
    /\ calls = <<>>
    /\ fs = <<>>
    /\ validation = <<>>
    /\ toolCalls = <<>>
    /\ sweepTimer = RATE_LIMIT_WINDOW
    /\ isShuttingDown = FALSE
    /\ connections = {}
    /\ db = "null"
    /\ shutdown = [signals |-> <<>>, closeCalls |-> 0, closePending |-> 0,
                   timersArmed |-> 0, timersPending |-> 0, destroyed |-> {},
                   dbCloses |-> 0, exit |-> "running"]

\* no conversion is asked of the codec
NoConversion == [kind |-> "none", done |-> TRUE]

Init == InitServer /\ codec = NoConversion

Sent(old, new) == IF new.sent > old.sent THEN <<"Sent">> ELSE <<>>

\* "if (requestAborted) return;" at the head of the 'data' and 'end' listeners
dataIgnored(rq) == rq.requestAborted

endAlwaysHandled(rq) == FALSE

endIgnored(rq) == rq.requestAborted

\* the handler without the rate limiter's verdict
ConnectionUnlimited(r, ip) ==
    /\ req[r].pc = "idle"
    /\ \A q \in Reqs : q < r => req[q].pc # "idle"
    /\ r = 1 => ip = "ipA"
    /\ rateLimitMap' = checkRateLimit(rateLimitMap, ip, now).map
    /\ req' = [req EXCEPT ![r].pc = "collecting", ![r].ip = ip]
    /\ hist' = [hist EXCEPT ![r] = <<"Accepted", "RateChecked", "BodyCollecting">>]
    /\ UNCHANGED <<now, concurrentRequests, res, proc, others>>

\* http.createServer's handler, up to the registration of the listeners
Connection(r, ip) ==
    /\ req[r].pc = "idle"
    \* connections are numbered in their order of arrival, and the identity
    \* of the first one is called ipA
    /\ \A q \in Reqs : q < r => req[q].pc # "idle"
    /\ r = 1 => ip = "ipA"
    /\ LET rl == checkRateLimit(rateLimitMap, ip, now)
           limited == end(setHeader(setHeader(setHeader(
                              [res[r] EXCEPT !.statusCode = 429],
                              ContentType, <<"application/json">>),
                              RetryAfter, <<"6", "0">>),
                              XRequestId, requestIdOf(r)),
                          JSONStringify([error |-> "Too Many Requests",
                              message |-> "Rate limit exceeded, please try again later"]))
       IN  /\ rateLimitMap' = rl.map
           /\ IF rl.allowed
              THEN /\ req' = [req EXCEPT ![r].pc = "collecting", ![r].ip = ip]
                   /\ hist' = [hist EXCEPT ![r] =
                                 <<"Accepted", "RateChecked", "BodyCollecting">>]
                   /\ UNCHANGED res
              ELSE /\ req' = [req EXCEPT ![r].pc = "limited", ![r].ip = ip]
                   /\ res' = [res EXCEPT ![r] = limited]
                   /\ hist' = [hist EXCEPT ![r] = <<"Accepted", "Aborted", "Sent">>]
    /\ UNCHANGED <<now, concurrentRequests, proc, others>>

\* req.setTimeout's callback without its response
RequestTimeoutSilent(r) ==
    /\ req[r].pc \in {"collecting", "delegating"}
    /\ ~req[r].requestAborted
    /\ req' = [req EXCEPT ![r].requestAborted = TRUE, ![r].timedOut = TRUE]
    /\ hist' = [hist EXCEPT ![r] = @ \o <<"Aborted">>]
    /\ UNCHANGED <<now, rateLimitMap, concurrentRequests, res, proc, others>>

\* req.setTimeout's callback, run while the request is collected or delegated
RequestTimeout(r) ==
    /\ req[r].pc \in {"collecting", "delegating"}
    /\ ~req[r].requestAborted
    /\ req' = [req EXCEPT ![r].requestAborted = TRUE, ![r].timedOut = TRUE]
    /\ res' = [res EXCEPT ![r] =
                 IF ~res[r].headersSent
                 THEN sendJsonError(res[r], 408, requestIdOf(r), "Request Timeout",
                                    "Request took too long")
                 ELSE res[r]]
    /\ hist' = [hist EXCEPT ![r] = @ \o <<"Aborted">> \o Sent(res[r], res'[r])]
    /\ UNCHANGED <<now, rateLimitMap, concurrentRequests, proc, others>>

\* req.setTimeout's callback, run after the handler has answered: the socket
\* stays open and idle
LateRequestTimeout(r) ==
    /\ req[r].pc = "done"
    /\ ~req[r].requestAborted
    /\ req' = [req EXCEPT ![r].requestAborted = TRUE, ![r].timedOut = TRUE]
    /\ res' = [res EXCEPT ![r] =
                 IF ~res[r].headersSent
                 THEN sendJsonError(res[r], 408, requestIdOf(r), "Request Timeout",
                                    "Request took too long")
                 ELSE res[r]]
    /\ hist' = [hist EXCEPT ![r] = @ \o Sent(res[r], res'[r])]
    /\ UNCHANGED <<now, rateLimitMap, concurrentRequests, proc, others>>

\* req.on('error')
RequestError(r) ==
    /\ req[r].pc = "collecting"
    /\ ~req[r].requestAborted
    /\ req' = [req EXCEPT ![r].requestAborted = TRUE]
    /\ res' = [res EXCEPT ![r] =
                 IF ~res[r].headersSent
                 THEN sendJsonError(res[r], 400, requestIdOf(r), "Bad Request",
                                    "Invalid request")
                 ELSE res[r]]
    /\ hist' = [hist EXCEPT ![r] = @ \o <<"Aborted">> \o Sent(res[r], res'[r])]
    /\ UNCHANGED <<now, rateLimitMap, concurrentRequests, proc, others>>

\* req.on('data') with a chunk of n size units
Data(r, n) ==
    /\ req[r].pc = "collecting"
    /\ IF dataIgnored(req[r])
       THEN UNCHANGED <<req, res, hist>>
       ELSE IF req[r].requestSize + n > MAX_REQUEST_SIZE
       THEN /\ req' = [req EXCEPT ![r].requestSize = @ + n,
                                  ![r].requestAborted = TRUE,
                                  ![r].destroyed = TRUE]
            /\ res' = [res EXCEPT ![r] =
                         IF ~res[r].headersSent
                         THEN sendJsonError(res[r], 413, requestIdOf(r),
                                            "Payload Too Large",
                                            "Maximum request size is N bytes")
                         ELSE res[r]]
            /\ hist' = [hist EXCEPT ![r] = @ \o <<"Aborted">> \o Sent(res[r], res'[r])]
       ELSE /\ req' = [req EXCEPT ![r].requestSize = @ + n,
                                  ![r].rawRequest = @ \o [i \in 1..n |-> "x"]]
            /\ UNCHANGED <<res, hist>>
    /\ UNCHANGED <<now, rateLimitMap, concurrentRequests, proc, others>>

\* an exit of processRequest before it waits for the delegate: the counter
\* was incremented, the finally block decrements it, and the 'end' listener
\* writes the returned text
Finish(r, url, httpResponse, events) ==
    /\ concurrentRequests' = release(acquire(concurrentRequests))
    /\ res' = [res EXCEPT ![r] = writeResponse(res[r], requestIdOf(r), httpResponse)]
    /\ req' = [req EXCEPT ![r].pc = "done", ![r].url = url]
    /\ hist' = [hist EXCEPT ![r] = @ \o events \o <<"ResponseReady">>
                                     \o Sent(res[r], res'[r])]

\* req.on('end') for a request whose target is url: the listener up to the
\* first point where processRequest waits for the delegate
End(r, url) ==
    /\ req[r].pc = "collecting"
    /\ UNCHANGED <<now, rateLimitMap, others>>
    /\ IF endIgnored(req[r])
       THEN /\ req' = [req EXCEPT ![r].pc = "done"]
            /\ UNCHANGED <<concurrentRequests, res, proc, hist>>
       ELSE
       LET parsed == parseHttpRequest(fullRequestOf(url, req[r].rawRequest))
       IN  IF atCapacity(concurrentRequests)
           THEN /\ proc' = [proc EXCEPT ![r].admission = "denied",
                                        ![r].outcome = "busy"]
                /\ res' = [res EXCEPT ![r] = writeResponse(res[r], requestIdOf(r),
                              errorText(503, "Server busy, please try again later"))]
                /\ req' = [req EXCEPT ![r].pc = "done", ![r].url = url]
                /\ hist' = [hist EXCEPT ![r] = @ \o <<"Rejected", "ResponseReady">>
                                                 \o Sent(res[r], res'[r])]
                /\ UNCHANGED concurrentRequests
           ELSE IF ~parsed.ok
           THEN /\ proc' = [proc EXCEPT ![r].admission = "granted",
                                        ![r].acquired = @ + 1,
                                        ![r].parse = "failed",
                                        ![r].released = @ + 1,
                                        ![r].outcome = "parse_failed"]
                /\ Finish(r, url, formatHttpResponse(outerCatch(parsed.error)).text,
                          <<"Admitted", "ParseFailed">>)
           ELSE IF promptLength(parsed) > MAX_PROMPT_SIZE
           THEN /\ proc' = [proc EXCEPT ![r].admission = "granted",
                                        ![r].acquired = @ + 1,
                                        ![r].parse = "ok",
                                        ![r].released = @ + 1,
                                        ![r].outcome = "prompt_too_large"]
                /\ Finish(r, url, errorText(413, "Request data too large for processing"),
                          <<"Admitted", "Parsed">>)
           ELSE /\ concurrentRequests' = acquire(concurrentRequests)
                /\ proc' = [proc EXCEPT ![r].admission = "granted",
                                        ![r].acquired = @ + 1,
                                        ![r].parse = "ok",
                                        ![r].timer = TRUE,
                                        ![r].timers = @ + 1,
                                        ![r].queries = @ + 1,
                                        ![r].delegate = "running"]
                /\ req' = [req EXCEPT ![r].pc = "delegating", ![r].url = url]
                /\ hist' = [hist EXCEPT ![r] = @ \o <<"Admitted", "Parsed", "Delegating">>]
                /\ UNCHANGED res

\* an exit that hands the request back to the 'end' listener for another try
LeaveAndRetry(r, outcome, httpResponse) ==
    /\ proc' = [proc EXCEPT ![r].timer = FALSE, ![r].delegate = "closed",
                            ![r].released = @ + 1, ![r].outcome = outcome,
                            ![r].responseSize = 0, ![r].fullResponse = <<>>]
    /\ concurrentRequests' = release(concurrentRequests)
    /\ req' = [req EXCEPT ![r].pc = IF proc[r].queries < 2 THEN "collecting" ELSE "done"]
    /\ UNCHANGED <<now, rateLimitMap, res, hist, others>>

\* an exit of processRequest while the delegate runs: clearTimeout, the
\* iterator is closed, then the finally block and the write
Leave(r, outcome, httpResponse) ==
    /\ proc' = [proc EXCEPT ![r].timer = FALSE, ![r].delegate = "closed",
                            ![r].released = @ + 1, ![r].outcome = outcome,
                            ![r].responseSize = 0, ![r].fullResponse = <<>>]
    /\ concurrentRequests' = release(concurrentRequests)
    /\ res' = [res EXCEPT ![r] = writeResponse(res[r], requestIdOf(r), httpResponse)]
    /\ req' = [req EXCEPT ![r].pc = "done"]
    /\ hist' = [hist EXCEPT ![r] = @ \o <<"ResponseReady">> \o Sent(res[r], res'[r])]
    /\ UNCHANGED <<now, rateLimitMap, others>>

\* a deadline timer whose callback does not abort
ClaudeTimeoutWithoutAbort(r) ==
    /\ req[r].pc = "delegating"
    /\ proc[r].timer
    /\ proc' = [proc EXCEPT ![r].timer = FALSE]
    /\ UNCHANGED <<now, rateLimitMap, concurrentRequests, req, res, hist, others>>

\* the delegation deadline: setTimeout(() => abortController.abort(), CLAUDE_TIMEOUT)
ClaudeTimeout(r) ==
    /\ req[r].pc = "delegating"
    /\ proc[r].timer
    /\ proc' = [proc EXCEPT ![r].timer = FALSE, ![r].aborted = TRUE]
    /\ UNCHANGED <<now, rateLimitMap, concurrentRequests, req, res, hist, others>>

\* the stream yields an assistant message with one text block b, or a
\* result message of subtype success whose result is b
StreamText(r, b) ==
    /\ req[r].pc = "delegating"
    /\ IF proc[r].responseSize + 1 > MAX_RESPONSE_SIZE
       THEN Leave(r, "response_too_large", errorText(500, "Response too large"))
       ELSE /\ proc' = [proc EXCEPT ![r].responseSize = @ + 1,
                                    ![r].fullResponse = Append(@, b)]
            /\ UNCHANGED <<now, rateLimitMap, concurrentRequests, req, res, hist, others>>

ErrorSubtypes == {"error_max_budget_usd", "error_max_turns", "error_during_execution"}

\* the stream yields a result message whose subtype starts with 'error'
StreamError(r, subtype) ==
    /\ req[r].pc = "delegating"
    /\ IF subtype = "error_max_budget_usd"
       THEN Leave(r, subtype, errorText(503, "Service budget exceeded"))
       ELSE IF subtype = "error_max_turns"
       THEN Leave(r, subtype, errorText(500, "Request too complex"))
       ELSE /\ ~proc[r].sawError
            /\ proc' = [proc EXCEPT ![r].sawError = TRUE]
            /\ UNCHANGED <<now, rateLimitMap, concurrentRequests, req, res, hist, others>>

\* the stream ends
StreamEnd(r) ==
    /\ req[r].pc = "delegating"
    /\ Leave(r, extractionOf(proc[r].fullResponse),
             completeResponse(proc[r].fullResponse, proc[r].aborted))

\* the messages of the errors the delegate's stream throws: the text is the
\* delegate's, and the outer catch block tests it for 'Invalid request'
ThrownMessages == {"stream failed", "Invalid request rejected by the delegate"}

\* the stream throws: an AbortError after the abort, or any other error
StreamThrow(r, message) ==
    /\ req[r].pc = "delegating"
    /\ Leave(r, IF message = "stream failed" THEN "thrown" ELSE "thrown_invalid_request",
             formatHttpResponse(innerCatch(proc[r].aborted, message)).text)

(***************************************************************************)
(* Spec: every event of a connection's lifecycle (body chunks, malformed   *)
(* targets, request errors, the two deadlines, stream errors), for the     *)
(* first FullRequests connections; the delegate emits free text or a       *)
(* well-formed envelope.                                                   *)
(***************************************************************************)
LifecycleBlocks == {"text", "ok"}

Next ==
    \/ \E r \in 1..FullRequests, ip \in IPs : Connection(r, ip)
    \/ \E r \in Reqs, n \in 1..MaxChunk : Data(r, n)
    \/ \E r \in Reqs, url \in Urls : End(r, url)
    \/ \E r \in Reqs : RequestTimeout(r)
    \/ \E r \in Reqs : LateRequestTimeout(r)
    \/ \E r \in Reqs : RequestError(r)
    \/ \E r \in Reqs : ClaudeTimeout(r)
    \/ \E r \in Reqs, b \in LifecycleBlocks : StreamText(r, b)
    \/ \E r \in Reqs, subtype \in ErrorSubtypes : StreamError(r, subtype)
    \/ \E r \in Reqs : StreamEnd(r)
    \/ \E r \in Reqs, message \in ThrownMessages : StreamThrow(r, message)

Spec == Init /\ [][Next]_vars

(***************************************************************************)
(* SpecStream: every output of the delegate (each envelope of Blocks, the  *)
(* error subtypes, a thrown error) against the two deadlines, for the      *)
(* first StreamRequests connections, whose requests are well-formed and    *)
(* have no body.                                                           *)
(***************************************************************************)
NextStream ==
    \/ \E r \in 1..StreamRequests, ip \in IPs : Connection(r, ip)
    \/ \E r \in Reqs : End(r, UrlOk)
    \/ \E r \in Reqs : RequestTimeout(r)
    \/ \E r \in Reqs : ClaudeTimeout(r)
    \/ \E r \in Reqs, b \in Blocks : StreamText(r, b)
    \/ \E r \in Reqs, subtype \in ErrorSubtypes : StreamError(r, subtype)
    \/ \E r \in Reqs : StreamEnd(r)
    \/ \E r \in Reqs, message \in ThrownMessages : StreamThrow(r, message)

SpecStream == Init /\ [][NextStream]_vars

\* the delegate of r runs although its deadline has aborted it
RunsAborted(r) == req[r].pc = "delegating" /\ proc[r].aborted

\* SpecStreamFair: SpecStream where an armed deadline timer fires unless it
\* is cleared (the event loop runs due timers), and where the stream of an
\* aborted delegate ends or throws: the delegate does not run on for ever
\* after the abort
SpecStreamFair ==
    /\ SpecStream
    /\ \A r \in 1..StreamRequests : WF_vars(ClaudeTimeout(r))
    /\ \A r \in 1..StreamRequests : []<>(~RunsAborted(r))

(***************************************************************************)
(* SpecLoad: NumRequests connections with empty bodies competing for the   *)
(* admission budget; the delegate ends its stream without output.          *)
(***************************************************************************)
NextLoad ==
    \/ \E r \in Reqs, ip \in IPs : Connection(r, ip)
    \/ \E r \in Reqs, url \in Urls : End(r, url)
    \/ \E r \in Reqs : RequestTimeout(r)
    \/ \E r \in Reqs : StreamEnd(r)

SpecLoad == Init /\ [][NextLoad]_vars

(***************************************************************************)
(* SpecUpload: NumRequests connections of one client whose bodies arrive   *)
(* in chunks, with the request timer and stream errors, next to requests   *)
(* being delegated; the connections beyond the rate limit are refused.     *)
(***************************************************************************)
NextUpload ==
    \/ \E r \in Reqs : Connection(r, "ipA")
    \/ \E r \in Reqs, n \in 1..MaxChunk : Data(r, n)
    \/ \E r \in Reqs : End(r, UrlOk)
    \/ \E r \in Reqs : RequestTimeout(r)
    \/ \E r \in Reqs : RequestError(r)
    \/ \E r \in Reqs : StreamEnd(r)

SpecUpload == Init /\ [][NextUpload]_vars

(***************************************************************************)
(* SpecRate: the rate limiter alone, with time.  Calls of checkRateLimit,  *)
(* ticks of Date.now() and runs of the periodic sweep interleave freely;   *)
(* calls records every call with its result and the entry it left.         *)
(***************************************************************************)
RateCall(ip) ==
    /\ Len(calls) < MaxCalls
    /\ LET rl == checkRateLimit(rateLimitMap, ip, now)
       IN  /\ rateLimitMap' = rl.map
           /\ calls' = Append(calls, [ip |-> ip, t |-> now, allowed |-> rl.allowed,
                                      entry |-> rl.map[ip]])
    /\ UNCHANGED <<now, concurrentRequests, req, res, proc, hist, fs, validation,
                   toolCalls, codec, shutdownVars, sweepTimer>>

\* Date.now() advances
Tick ==
    /\ now < MaxNow
    /\ now' = now + 1
    /\ UNCHANGED <<rateLimitMap, concurrentRequests, req, res, proc, hist, others>>

\* the setInterval callback that evicts old rate-limit entries
Sweep ==
    /\ rateLimitMap' = sweepRateLimitMap(rateLimitMap, now)
    /\ UNCHANGED <<now, concurrentRequests, req, res, proc, hist, others>>

NextRate ==
    \/ \E ip \in IPs : RateCall(ip)
    \/ Tick
    \/ Sweep

SpecRate == Init /\ [][NextRate]_vars

(***************************************************************************)
(* SpecRateTimed: the rate limiter with the sweep on its timer.            *)
(* setInterval(..., RATE_LIMIT_WINDOW) is armed when the module loads;     *)
(* sweepTimer is the time the callback is next due.  The event loop runs   *)
(* it at that time or up to MaxLate later, and the timer is armed again    *)
(* from the time it ran.                                                   *)
(***************************************************************************)
TickTimed ==
    /\ now < MaxTimedNow
    /\ now < sweepTimer + MaxLate
    /\ now' = now + 1
    /\ UNCHANGED <<rateLimitMap, concurrentRequests, req, res, proc, hist, others>>

SweepTimed ==
    /\ now >= sweepTimer
    /\ rateLimitMap' = sweepRateLimitMap(rateLimitMap, now)
    /\ sweepTimer' = now + RATE_LIMIT_WINDOW
    /\ UNCHANGED <<now, concurrentRequests, req, res, proc, hist, calls, fs,
                   validation, toolCalls, codec, shutdownVars>>

NextRateTimed ==
    \/ \E ip \in IPs : RateCall(ip)
    \/ TickTimed
    \/ SweepTimed

SpecRateTimed == Init /\ [][NextRateTimed]_vars

(***************************************************************************)
(* The file tools' path validation: validateAndResolvePath over a small   *)
(* file tree with symbolic links.  Paths are sequences of characters.      *)
(*                                                                         *)
(*     /            the file system's root                                 *)
(*     /r           FILE_STORAGE_DIR, with the file /r/x                   *)
(*     /rr          a sibling directory, with the file /rr/x               *)
(*     /o           another directory, with the file /o/x                  *)
(*     /r/l         the place where a symbolic link may be made            *)
(***************************************************************************)
Sep == <<"/">>

DotDot == <<".", ".">>

FILE_STORAGE_DIR == <<"/", "r">>

\* path.posix.isAbsolute
isAbsolute(p) == Len(p) > 0 /\ p[1] = "/"

\* String.prototype.endsWith, String.prototype.startsWith
endsWith(s, suffix) ==
    Len(suffix) <= Len(s) /\ SubSeq(s, Len(s) - Len(suffix) + 1, Len(s)) = suffix

startsWith(s, prefix) == IsPrefixAt(s, prefix, 1)

\* node's normalizeString for an absolute path: empty and '.' segments are
\* dropped and '..' removes the segment before it, if there is one
RECURSIVE normalizeSegments(_, _)
normalizeSegments(segs, acc) ==
    IF segs = <<>> THEN acc
    ELSE LET seg == Head(segs)
         IN  IF seg = <<>> \/ seg = <<".">>
             THEN normalizeSegments(Tail(segs), acc)
             ELSE IF seg = DotDot
             THEN normalizeSegments(Tail(segs),
                      IF acc = <<>> THEN acc ELSE SubSeq(acc, 1, Len(acc) - 1))
             ELSE normalizeSegments(Tail(segs), Append(acc, seg))

\* the text of the absolute path with the given segments
PathOf(segs) == Sep \o Join(segs, Sep)

SegmentsOf(p) == normalizeSegments(Split(p, Sep), <<>>)

\* path.resolve(base, p) for an absolute base
resolve(base, p) ==
    IF isAbsolute(p) THEN PathOf(SegmentsOf(p))
    ELSE PathOf(SegmentsOf(base \o Sep \o p))

\* path.normalize of an absolute path; a trailing separator is kept
normalize(p) ==
    LET segs == SegmentsOf(p)
    IN  IF segs # <<>> /\ endsWith(p, Sep) THEN PathOf(segs) \o Sep
        ELSE PathOf(segs)

\* path.dirname of an absolute path without a trailing separator
dirname(p) ==
    LET I == {i \in 1..Len(p) : p[i] = "/"}
        last == CHOOSE i \in I : \A j \in I : j <= i
    IN  IF last = 1 THEN Sep ELSE SubSeq(p, 1, last - 1)

SAFE_BASE_DIR_ORIGINAL == normalize(FILE_STORAGE_DIR)

SAFE_BASE_DIR == ToLowerCase(normalize(FILE_STORAGE_DIR))

\* the directories and the regular files of the tree, by their segments
Directories == {<<>>, <<<<"r">>>>, <<<<"r", "r">>>>, <<<<"o">>>>}

RegularFiles == {<< <<"r">>, <<"x">> >>, << <<"r", "r">>, <<"x">> >>,
                 << <<"o">>, <<"x">> >>}

\* the number of symbolic links the kernel follows in one resolution
MaxSymlinkHops == 2

RealpathError(code) == [ok |-> FALSE, path |-> <<>>, code |-> code]

\* fs.realpath: the path is resolved one component at a time; links is the
\* table of symbolic links (place -> target)
RECURSIVE realpathWalk(_, _, _, _)
realpathWalk(links, cur, rest, hops) ==
    IF rest = <<>> THEN [ok |-> TRUE, path |-> PathOf(cur), code |-> "none"]
    ELSE LET cand == Append(cur, Head(rest))
         IN  IF HasKey(links, PathOf(cand))
             THEN IF hops = 0 THEN RealpathError("ELOOP")
                  ELSE realpathWalk(links, <<>>,
                           SegmentsOf(Get(links, PathOf(cand))) \o Tail(rest),
                           hops - 1)
             ELSE IF cand \in Directories
             THEN realpathWalk(links, cand, Tail(rest), hops)
             ELSE IF cand \in RegularFiles
             THEN IF Tail(rest) = <<>>
                  THEN [ok |-> TRUE, path |-> PathOf(cand), code |-> "none"]
                  ELSE RealpathError("ENOTDIR")
             ELSE RealpathError("ENOENT")

realpath(links, p) == realpathWalk(links, <<>>, SegmentsOf(p), MaxSymlinkHops)

AccessDenied == "Access denied: "

Rejected(error) == [ok |-> FALSE, path |-> <<>>, error |-> error]

Resolved(p) == [ok |-> TRUE, path |-> p, error |-> <<>>]

NUL == "NUL"

\* validateAndResolvePath(filepath) with the symbolic links as they are at
\* the time of the call
validateAndResolvePath(links, filepath) ==
    IF isAbsolute(filepath)
    THEN Rejected(<<AccessDenied, "Absolute paths not allowed">>)
    ELSE IF \E i \in 1..Len(filepath) : filepath[i] = NUL
    THEN Rejected(<<AccessDenied, "Null bytes in path">>)
    ELSE IF endsWith(filepath, Sep) \/ endsWith(filepath, <<"\\">>)
    THEN Rejected(<<AccessDenied, "Path cannot end with separator">>)
    ELSE
    LET resolvedPath == resolve(SAFE_BASE_DIR_ORIGINAL, filepath)
        normalizedPath == normalize(resolvedPath)
        normalizedLower == ToLowerCase(normalizedPath)
    IN  IF ~startsWith(normalizedLower, SAFE_BASE_DIR)
        THEN Rejected(<<AccessDenied, "Path is outside allowed directory">>)
        ELSE
        LET real == realpath(links, normalizedPath)
        IN  IF real.ok
            THEN IF ~startsWith(ToLowerCase(real.path), SAFE_BASE_DIR)
                 THEN Rejected(<<AccessDenied,
                                 "Symlink points outside allowed directory">>)
                 ELSE Resolved(real.path)
            ELSE IF real.code = "ENOENT"
            THEN LET realParent == realpath(links, dirname(normalizedPath))
                 IN  IF realParent.ok
                        /\ startsWith(ToLowerCase(realParent.path), SAFE_BASE_DIR)
                     THEN Resolved(normalizedPath)
                     ELSE Rejected(<<AccessDenied,
                                     "Parent directory does not exist">>)
            ELSE Rejected(<<real.code>>)

(***************************************************************************)
(* SpecPath: calls of validateAndResolvePath interleaved with the making   *)
(* and removal of a symbolic link inside the storage directory.  The calls *)
(* of one behaviour repeat one literal path; validation records each call  *)
(* with the links it found.                                                *)
(***************************************************************************)
MaxSegments == 3

MaxValidations == 2

Names == {<<"r">>, <<"r", "r">>, <<"o">>, <<"l">>, <<"x">>, <<"n">>, DotDot, <<>>}

InputPaths ==
    {Join(segs, Sep) : segs \in UNION {[1..k -> Names] : k \in 1..MaxSegments}}

\* /r/l
LinkPlace == PathOf(<< <<"r">>, <<"l">> >>)

\* /rr, /o, /r/x, /o/n (which does not exist) and /r/l (the link itself)
LinkTargets ==
    {PathOf(<< <<"r", "r">> >>), PathOf(<< <<"o">> >>),
     PathOf(<< <<"r">>, <<"x">> >>), PathOf(<< <<"o">>, <<"n">> >>),
     PathOf(<< <<"r">>, <<"l">> >>)}

Validate(filepath) ==
    /\ Len(validation) < MaxValidations
    /\ \A i \in 1..Len(validation) : validation[i].filepath = filepath
    /\ validation' = Append(validation,
                            [filepath |-> filepath, links |-> fs,
                             result |-> validateAndResolvePath(fs, filepath)])
    /\ UNCHANGED <<now, rateLimitMap, concurrentRequests, req, res, proc, hist,
                   calls, fs, toolCalls, codec, shutdownVars, sweepTimer>>

\* ln -s target /r/l
Symlink(target) ==
    /\ ~HasKey(fs, LinkPlace)
    /\ fs' = SetKey(fs, LinkPlace, target)
    /\ UNCHANGED <<now, rateLimitMap, concurrentRequests, req, res, proc, hist,
                   calls, validation, toolCalls, codec, shutdownVars, sweepTimer>>

\* rm /r/l
Unlink ==
    /\ HasKey(fs, LinkPlace)
    /\ fs' = SelectSeq(fs, LAMBDA e : e[1] # LinkPlace)
    /\ UNCHANGED <<now, rateLimitMap, concurrentRequests, req, res, proc, hist,
                   calls, validation, toolCalls, codec, shutdownVars, sweepTimer>>

NextPath ==
    \/ \E filepath \in InputPaths : Validate(filepath)
    \/ \E target \in LinkTargets : Symlink(target)
    \/ Unlink

SpecPath == Init /\ [][NextPath]_vars

(***************************************************************************)
(* SpecTools: calls of the tools read_file, write_file and list_directory  *)
(* interleaved with the making and removal of the symbolic link.  Each     *)
(* call is evaluated on the tree above with the links of the moment, and   *)
(* toolCalls records it with its result and with the directories and the   *)
(* file it makes.  Sizes and the entry limit are scaled down.              *)
(***************************************************************************)
MAX_FILE_SIZE == 1
MAX_WRITE_SIZE == 1
MAX_DIRECTORY_ENTRIES == 1

MaxToolSegments == 2

MaxToolCalls == 1

\* the size of a regular file: /rr/x is larger than MAX_FILE_SIZE
FileSize(segs) == IF segs = << <<"r", "r">>, <<"x">> >> THEN MAX_FILE_SIZE + 1 ELSE 1

\* the message of a file system error: its code, the system call and the
\* path the call was made with
FsError(code, syscall, p) == <<code, ": ", syscall, " '">> \o p \o <<"'">>

\* fs.stat, which follows symbolic links
stat(links, p) ==
    LET real == realpath(links, p)
    IN  IF ~real.ok
        THEN [ok |-> FALSE, code |-> real.code, isFile |-> FALSE,
              isDirectory |-> FALSE, size |-> 0, real |-> <<>>]
        ELSE LET segs == SegmentsOf(real.path)
             IN  [ok |-> TRUE, code |-> "none",
                  isFile |-> segs \in RegularFiles,
                  isDirectory |-> segs \in Directories,
                  size |-> FileSize(segs), real |-> real.path]

\* fs.readdir: the names in the directory with the given real path
readdir(links, real) ==
    LET dir == SegmentsOf(real)
    IN  {PathOf(e) : e \in {t \in Directories \cup RegularFiles :
                               /\ Len(t) = Len(dir) + 1
                               /\ SubSeq(t, 1, Len(dir)) = dir}}
        \cup {links[k][1] : k \in {j \in 1..Len(links) :
                                       SegmentsOf(dirname(links[j][1])) = dir}}

\* fs.mkdir(dir, { recursive: false }): "EEXIST" when something is there,
\* "created" when only the last level is missing, else the error's code
mkdir(links, dir) ==
    IF realpath(links, dir).ok \/ HasKey(links, dir) THEN "EEXIST"
    ELSE LET parent == stat(links, dirname(dir))
         IN  IF ~parent.ok THEN parent.code
             ELSE IF parent.isDirectory THEN "created"
             ELSE "ENOTDIR"

\* the directories fs.mkdir(dir, { recursive: true }) makes: every missing
\* level of dir
RECURSIVE missingLevels(_, _)
missingLevels(links, dir) ==
    IF dir = Sep \/ realpath(links, dir).ok \/ HasKey(links, dir) THEN {}
    ELSE {dir} \cup missingLevels(links, dirname(dir))

\* fs.writeFile(p), which follows symbolic links: the real path of the file
\* written, or the error's code
writeTarget(links, p) ==
    LET real == stat(links, p)
    IN  IF real.ok
        THEN IF real.isDirectory THEN [ok |-> FALSE, code |-> "EISDIR", path |-> <<>>]
             ELSE [ok |-> TRUE, code |-> "none", path |-> real.real]
        ELSE IF real.code # "ENOENT" THEN [ok |-> FALSE, code |-> real.code, path |-> <<>>]
        ELSE LET place == IF HasKey(links, p) THEN Get(links, p) ELSE p
                 parent == stat(links, dirname(place))
             IN  IF parent.ok /\ parent.isDirectory
                 THEN [ok |-> TRUE, code |-> "none",
                       path |-> IF parent.real = Sep
                                THEN PathOf(<<SegmentsOf(place)[Len(SegmentsOf(place))]>>)
                                ELSE parent.real \o Sep
                                     \o SegmentsOf(place)[Len(SegmentsOf(place))]]
                 ELSE [ok |-> FALSE,
                       code |-> IF parent.ok THEN "ENOTDIR" ELSE parent.code,
                       path |-> <<>>]

FileOperationFailed == <<"File operation failed">>

DirectoryOperationFailed == <<"Directory operation failed">>

ToolSuccess(created, written) ==
    [success |-> TRUE, error |-> <<>>, created |-> created, written |-> written]

ToolFailure(error) ==
    [success |-> FALSE, error |-> error, created |-> {}, written |-> <<>>]

\* a catch block that returns the message of whatever was thrown
toolCatchRaw(message, generic) == ToolFailure(message)

\* the catch block of a tool: error.message.startsWith('Access denied') ?
\* error.message : generic
toolCatch(message, generic) ==
    IF message # <<>> /\ message[1] = AccessDenied THEN ToolFailure(message)
    ELSE ToolFailure(generic)

\* read_file
readFileTool(links, filepath) ==
    LET v == validateAndResolvePath(links, filepath)
    IN  IF ~v.ok THEN toolCatch(v.error, FileOperationFailed)
        ELSE
        LET stats == stat(links, v.path)
        IN  IF ~stats.ok
            THEN toolCatch(FsError(stats.code, "stat", v.path), FileOperationFailed)
            ELSE IF ~stats.isFile
            THEN toolCatch(<<"Path is not a file">>, FileOperationFailed)
            ELSE IF stats.size > MAX_FILE_SIZE
            THEN toolCatch(<<"File too large: ">> \o NumberToText(stats.size),
                           FileOperationFailed)
            ELSE ToolSuccess({}, <<>>)

\* write_file with a content of the given size
writeFileTool(links, filepath, size) ==
    IF size > MAX_WRITE_SIZE
    THEN toolCatch(<<"Content too large: ">> \o NumberToText(size), FileOperationFailed)
    ELSE
    LET v == validateAndResolvePath(links, filepath)
    IN  IF ~v.ok THEN toolCatch(v.error, FileOperationFailed)
        ELSE
        LET dir == dirname(v.path)
            made == mkdir(links, dir)
            target == writeTarget(links, v.path)
        IN  IF ~startsWith(ToLowerCase(dir), SAFE_BASE_DIR)
            THEN toolCatch(<<AccessDenied, "Parent directory outside allowed directory">>,
                           FileOperationFailed)
            ELSE IF made = "ENOENT"
            THEN IF startsWith(ToLowerCase(dirname(dir)), SAFE_BASE_DIR)
                 THEN ToolSuccess(missingLevels(links, dir), v.path)
                 ELSE toolCatch(<<AccessDenied, "Cannot create nested directories">>,
                                FileOperationFailed)
            ELSE IF made = "created" THEN ToolSuccess({dir}, v.path)
            ELSE IF made = "EEXIST"
            THEN IF target.ok THEN ToolSuccess({}, target.path)
                 ELSE toolCatch(FsError(target.code, "open", v.path), FileOperationFailed)
            ELSE toolCatch(FsError(made, "mkdir", dir), FileOperationFailed)

\* list_directory
listDirectoryTool(links, dirpath) ==
    LET v == validateAndResolvePath(links, dirpath)
    IN  IF ~v.ok THEN toolCatch(v.error, DirectoryOperationFailed)
        ELSE
        LET stats == stat(links, v.path)
        IN  IF ~stats.ok
            THEN toolCatch(FsError(stats.code, "stat", v.path), DirectoryOperationFailed)
            ELSE IF ~stats.isDirectory
            THEN toolCatch(<<"Path is not a directory">>, DirectoryOperationFailed)
            ELSE
            LET entries == readdir(links, stats.real)
            IN  IF Cardinality(entries) > MAX_DIRECTORY_ENTRIES
                THEN ToolFailure(<<"Directory has too many entries: ">>
                                 \o NumberToText(Cardinality(entries))
                                 \o <<" (max: ">> \o NumberToText(MAX_DIRECTORY_ENTRIES)
                                 \o <<"). Use a more specific path.">>)
                ELSE ToolSuccess({}, <<>>)

\* the segments of the paths the tools are called with
ToolNames == {<<"x">>, <<"n">>, <<"l">>, <<"o">>, DotDot}

ToolPaths ==
    {Join(segs, Sep) : segs \in UNION {[1..k -> ToolNames] : k \in 1..MaxToolSegments}}

\* the sizes of the contents written: within MAX_WRITE_SIZE and above it
ContentSizes == {1, MAX_WRITE_SIZE + 1}

\* the record of one call in toolCalls
ToolCall(tool, filepath, size, result) ==
    [tool |-> tool, filepath |-> filepath, size |-> size, links |-> fs,
     result |-> result]

\* the calls of one behaviour repeat one literal path
MayCall(filepath) ==
    /\ Len(toolCalls) < MaxToolCalls
    /\ \A i \in 1..Len(toolCalls) : toolCalls[i].filepath = filepath

ReadFile(filepath) ==
    /\ MayCall(filepath)
    /\ toolCalls' = Append(toolCalls, ToolCall("read_file", filepath, 0,
                              readFileTool(fs, filepath)))
    /\ UNCHANGED <<now, rateLimitMap, concurrentRequests, req, res, proc, hist,
                   calls, fs, validation, codec, shutdownVars, sweepTimer>>

WriteFile(filepath, size) ==
    /\ MayCall(filepath)
    /\ toolCalls' = Append(toolCalls, ToolCall("write_file", filepath, size,
                              writeFileTool(fs, filepath, size)))
    /\ UNCHANGED <<now, rateLimitMap, concurrentRequests, req, res, proc, hist,
                   calls, fs, validation, codec, shutdownVars, sweepTimer>>

ListDirectory(dirpath) ==
    /\ MayCall(dirpath)
    /\ toolCalls' = Append(toolCalls, ToolCall("list_directory", dirpath, 0,
                              listDirectoryTool(fs, dirpath)))
    /\ UNCHANGED <<now, rateLimitMap, concurrentRequests, req, res, proc, hist,
                   calls, fs, validation, codec, shutdownVars, sweepTimer>>

NextTools ==
    \/ \E filepath \in ToolPaths : ReadFile(filepath)
    \/ \E filepath \in ToolPaths, size \in ContentSizes : WriteFile(filepath, size)
    \/ \E dirpath \in ToolPaths : ListDirectory(dirpath)
    \/ \E target \in LinkTargets : Symlink(target)
    \/ Unlink

SpecTools == Init /\ [][NextTools]_vars

(***************************************************************************)
(* SpecSql: calls of the sqlite tool.  A query is a sequence of tokens     *)
(* (keywords, names, " " for a run of white space, punctuation); toolCalls *)
(* records each call with the method of the prepared statement that ran.   *)
(***************************************************************************)
MaxSqlCalls == 2

\* the /i flag of the patterns: a token in upper case
UpperToken(t) ==
    CASE t = "pragma" -> "PRAGMA"
      [] t = "select" -> "SELECT"
      [] t = "Table_Info" -> "TABLE_INFO"
      [] t = "table_info" -> "TABLE_INFO"
      [] t = "index_list" -> "INDEX_LIST"
      [] t = "foreign_key_list" -> "FOREIGN_KEY_LIST"
      [] t = "database_list" -> "DATABASE_LIST"
      [] t = "compile_options" -> "COMPILE_OPTIONS"
      [] OTHER -> t

\* the PRAGMA names of the third pattern
ReadOnlyPragmas ==
    {"TABLE_INFO", "INDEX_LIST", "FOREIGN_KEY_LIST", "DATABASE_LIST", "COMPILE_OPTIONS"}

\* String.prototype.trim over tokens
TrimTokens(q) ==
    LET I == {i \in 1..Len(q) : q[i] # " "}
    IN  IF I = {} THEN <<>>
        ELSE SubSeq(q, CHOOSE i \in I : \A j \in I : i <= j,
                       CHOOSE i \in I : \A j \in I : j <= i)

\* q[i] is the keyword and white space follows it: KEYWORD\s+
KeywordAt(q, i, keyword) ==
    i + 1 <= Len(q) /\ UpperToken(q[i]) = keyword /\ q[i + 1] = " "

\* READONLY_SQL_PATTERNS tested on the trimmed query
READONLY_SQL_PATTERNS(q) ==
    \/ KeywordAt(q, 1, "SELECT")
    \/ KeywordAt(q, 1, "EXPLAIN")
    \/ /\ KeywordAt(q, 1, "PRAGMA")
       /\ Len(q) >= 4
       /\ UpperToken(q[3]) \in ReadOnlyPragmas
       /\ q[4] = "(" \/ (Len(q) >= 5 /\ q[4] = " " /\ q[5] = "(")
    \/ /\ KeywordAt(q, 1, "WITH")
       /\ \E i \in 3..Len(q) : q[i] = " " /\ KeywordAt(q, i + 1, "SELECT")

isReadOnlyQuery(sqlQuery) == READONLY_SQL_PATTERNS(TrimTokens(sqlQuery))

\* the statement is a PRAGMA
IsPragma(sqlQuery) ==
    LET q == TrimTokens(sqlQuery) IN q # <<>> /\ UpperToken(q[1]) = "PRAGMA"

\* the PRAGMAs that only set a value and return no row
SettingPragmas == {"foreign_keys", "user_version", "writable_schema"}

\* the prepared statement returns rows (stmt.reader)
ReturnsData(sqlQuery) ==
    LET q == TrimTokens(sqlQuery)
    IN  IF IsPragma(sqlQuery) THEN Len(q) < 3 \/ q[3] \notin SettingPragmas
        ELSE UpperToken(q[1]) \in {"SELECT", "EXPLAIN", "WITH"}

DatabaseError == <<"Database error">>

\* the sqlite tool: stmt.all() for a read-only query, stmt.run() for any
\* other; all() throws for a statement without rows and run() for one with
\* rows, before the statement is stepped
sqliteTool(sqlQuery) ==
    IF isReadOnlyQuery(sqlQuery)
    THEN IF ReturnsData(sqlQuery)
         THEN [success |-> TRUE, error |-> <<>>, executed |-> "all"]
         ELSE [success |-> FALSE, error |-> DatabaseError, executed |-> "none"]
    ELSE IF ReturnsData(sqlQuery)
         THEN [success |-> FALSE, error |-> DatabaseError, executed |-> "none"]
         ELSE [success |-> TRUE, error |-> <<>>, executed |-> "run"]

Statements ==
    {<<"PRAGMA", " ", "table_info", "(", "t", ")">>,
     <<"pragma", " ", "Table_Info", " ", "(", "t", ")">>,
     <<"PRAGMA", " ", "database_list">>,
     <<"PRAGMA", " ", "journal_mode", "=", "DELETE">>,
     <<"PRAGMA", " ", "foreign_keys", "=", "OFF">>,
     <<"pragma", " ", "writable_schema", "=", "ON">>,
     <<"SELECT", " ", "1">>,
     <<"EXPLAIN", " ", "SELECT", " ", "1">>,
     <<"WITH", " ", "c", " ", "AS", " ", "(", "SELECT", " ", "1", ")", " ",
       "SELECT", " ", "1">>,
     <<"INSERT", " ", "INTO", " ", "t", " ", "VALUES", "(", "1", ")">>,
     <<"DELETE", " ", "FROM", " ", "t">>}

\* the queries: a statement, with or without white space before it
Queries == Statements \cup {<<" ">> \o q : q \in Statements}

Sqlite(sqlQuery) ==
    /\ Len(toolCalls) < MaxSqlCalls
    /\ toolCalls' = Append(toolCalls, [tool |-> "sqlite", query |-> sqlQuery,
                                       result |-> sqliteTool(sqlQuery)])
    /\ UNCHANGED <<now, rateLimitMap, concurrentRequests, req, res, proc, hist,
                   calls, fs, validation, codec, shutdownVars, sweepTimer>>

NextSql == \E sqlQuery \in Queries : Sqlite(sqlQuery)

SpecSql == Init /\ [][NextSql]_vars

(***************************************************************************)
(* SpecCodec: the wire codec alone.  The initial state holds one input, a  *)
(* response envelope or the text of a request; FormatAndParse formats the  *)
(* envelope and reads the text back with the header loop and the body      *)
(* rule of parseHttpRequest, ParseRequest parses the request.              *)
(***************************************************************************)
MaxHeaders == 2

HeaderNames == {<<"a">>, <<"A">>, <<"x", "-", "b">>, ContentLength}

\* one value, plain, with a space before it, with a colon or with a line
\* break and a further header line in it; two values; no value
HeaderValueLists ==
    {<< <<"v">> >>, << <<" ", "v">> >>, << <<"v", ":", "w">> >>,
     << <<"v">> \o CRLF \o <<"c", ":", "d">> >>,
     << <<"v">>, <<"w">> >>, <<>>}

\* the headers objects with at most MaxHeaders keys, in insertion order
HeaderObjects ==
    {h \in UNION {[1..k -> HeaderNames \X HeaderValueLists] : k \in 0..MaxHeaders} :
        \A i, j \in 1..Len(h) : i # j => h[i][1] # h[j][1]}

\* objects in which two casings of one name stand apart, around another
\* name, and objects with a lowercase content-length, with and without value
InterleavedHeaderObjects ==
    {<< <<ToLowerCase(ContentLength), << <<"5">> >> >> >>,
     << <<(<<"a">>), << <<"v">> >> >>, <<ToLowerCase(ContentLength), <<>> >> >>,
     << <<(<<"a">>), << <<"v">> >> >>,
        <<(<<"x", "-", "b">>), << <<"w">> >> >>,
        <<(<<"A">>), << <<"w">>, <<"v">> >> >> >>,
     << <<(<<"x", "-", "b">>), << <<"v">>, <<"w">> >> >>,
        <<(<<"A">>), << <<"w">> >> >>,
        <<(<<"X", "-", "B">>), << <<"u">> >> >>,
        <<(<<"a">>), << <<"v">> >> >> >>}

Bodies ==
    {NoBody, StringBody(<<"h", "i">>), StringBody(<<"é">>),
     StringBody(<<"a">> \o CRLF \o CRLF \o <<"b">>),
     [kind |-> "object", error |-> "e", message |-> "m", text |-> <<>>]}

\* complete preambles and one without a status
Preambles ==
    {[version |-> HTTP11, status |-> 200, reason |-> <<"OK">>],
     [version |-> HTTP11, status |-> 0, reason |-> <<"OK">>]}

ResponseInputs ==
    {[kind |-> "response", done |-> FALSE,
      envelope |-> [hasPreamble |-> TRUE, preamble |-> p, headers |-> h, body |-> b],
      accepted |-> FALSE, text |-> <<>>, headers |-> <<>>, body |-> <<>>] :
        p \in Preambles, h \in HeaderObjects \cup InterleavedHeaderObjects,
        b \in Bodies}

\* request lines: method, target and version joined by single spaces, each
\* of them possibly empty
RequestLines ==
    {Join(<<m, t, v>>, <<" ">>) :
        m \in {<<"G", "E", "T">>, <<>>},
        t \in {<<"/", "a">>, <<>>, <<"?", "a">>, <<"/", "a", "?", "b">>, <<"/", "a", " ">>},
        v \in {HTTP11, <<>>}}

\* what follows the request line: headers and an empty line with no body,
\* with a body, with a body that holds empty lines or is a line break; no
\* empty line at all (nothing, a header, a header and a line break); the
\* empty line right after the request line; a lone CR before the empty line
RequestTails ==
    LET h == CRLF \o <<"h", ":", "1">>
    IN  {h \o CRLF \o CRLF,
         h \o CRLF \o CRLF \o <<"b">>,
         h \o CRLF \o CRLF \o <<"a">> \o CRLF \o CRLF \o <<"b">> \o CRLF,
         h \o CRLF \o CRLF \o CRLF,
         <<>>,
         h,
         h \o CRLF,
         CRLF \o CRLF \o <<"b">>,
         h \o <<CR>> \o CRLF \o CRLF \o <<"b">>}

\* the pairs of a query string: a bare key, a key and a value, a value with
\* '=' in it, no key, no value, another key, an escaped value
MaxPairs == 2

QueryPairs ==
    {<<"k">>, <<"k", "=", "v">>, <<"k", "=", "v", "=", "w">>, <<"=", "v">>,
     <<"k", "=">>, <<"j", "=", "w">>, <<"k", "=", "%", "4", "1">>}

QueryStrings ==
    {Join(pairs, <<"&">>) : pairs \in UNION {[1..n -> QueryPairs] : n \in 1..MaxPairs}}

\* 'GET /a?<query> HTTP/1.1' with one header and no body
QueryRequests ==
    {<<"G", "E", "T", " ", "/", "a", "?">> \o q \o <<" ">> \o HTTP11
        \o CRLF \o <<"h", ":", "1">> \o CRLF \o CRLF : q \in QueryStrings}

RequestInputs ==
    {[kind |-> "request", done |-> FALSE,
      rawRequest |-> line \o tail,
      parsed |-> ParseFailure("")] :
        line \in RequestLines, tail \in RequestTails}
    \cup {[kind |-> "request", done |-> FALSE, rawRequest |-> raw,
           parsed |-> ParseFailure("")] : raw \in QueryRequests}

\* preambles the delegate may give: versions with and without the 'HTTP/'
\* form, statuses inside and below the range Node accepts
TransmitPreambles ==
    {[version |-> v, status |-> st, reason |-> rs] :
        v \in {HTTP11, <<"H", "T", "T", "P", "/", "2">>, <<"H", "T", "T", "P">>,
               <<"1", ".", "1">>},
        st \in {200, 404, 99},
        rs \in {<<"OK">>, <<"N", "o", "t", " ", "F", "o", "u", "n", "d">>}}

\* envelopes to be formatted and written to a client
TransmitInputs ==
    {[kind |-> "transmit", done |-> FALSE,
      envelope |-> [hasPreamble |-> TRUE, preamble |-> p, headers |-> h, body |-> b],
      accepted |-> FALSE, text |-> <<>>, res |-> NewResponse] :
        p \in TransmitPreambles,
        h \in {<<>>, << <<ContentType, << <<"text/plain">> >> >> >>},
        b \in {NoBody, StringBody(<<"h", "i">>)}}

InitCodec == InitServer /\ codec \in ResponseInputs \cup RequestInputs \cup TransmitInputs

\* the text of the body formatHttpResponse writes for the envelope
bodyStringOf(envelope) ==
    CASE envelope.body.kind = "absent" -> <<>>
      [] envelope.body.kind = "string" -> envelope.body.text
      [] OTHER -> JSONStringify(envelope.body)

\* formatHttpResponse, then the header loop and the body rule of
\* parseHttpRequest on the lines after the first
FormatAndParse ==
    /\ codec.kind = "response"
    /\ ~codec.done
    /\ LET formatted == formatHttpResponse(codec.envelope)
           rest == Tail(Split(formatted.text, CRLF))
           hdr == parseHeaders(rest, 1, <<>>)
       IN  codec' = IF formatted.ok
                    THEN [codec EXCEPT !.done = TRUE, !.accepted = TRUE,
                                       !.text = formatted.text,
                                       !.headers = hdr[1],
                                       !.body = Join(SubSeq(rest, hdr[2] + 1, Len(rest)),
                                                     CRLF)]
                    ELSE [codec EXCEPT !.done = TRUE]
    /\ UNCHANGED <<now, rateLimitMap, concurrentRequests, req, res, proc, hist,
                   calls, fs, validation, toolCalls, shutdownVars, sweepTimer>>

\* parseHttpRequest(rawRequest)
ParseRequest ==
    /\ codec.kind = "request"
    /\ ~codec.done
    /\ codec' = [codec EXCEPT !.done = TRUE, !.parsed = parseHttpRequest(codec.rawRequest)]
    /\ UNCHANGED <<now, rateLimitMap, concurrentRequests, req, res, proc, hist,
                   calls, fs, validation, toolCalls, shutdownVars, sweepTimer>>

\* formatHttpResponse, then the 'end' listener's writing of the text to a
\* fresh ServerResponse
FormatAndWrite ==
    /\ codec.kind = "transmit"
    /\ ~codec.done
    /\ LET formatted == formatHttpResponse(codec.envelope)
       IN  codec' = IF formatted.ok
                    THEN [codec EXCEPT !.done = TRUE, !.accepted = TRUE,
                                       !.text = formatted.text,
                                       !.res = writeResponse(NewResponse, requestIdOf(1),
                                                             formatted.text)]
                    ELSE [codec EXCEPT !.done = TRUE]
    /\ UNCHANGED <<now, rateLimitMap, concurrentRequests, req, res, proc, hist,
                   calls, fs, validation, toolCalls, shutdownVars, sweepTimer>>

NextCodec == FormatAndParse \/ ParseRequest \/ FormatAndWrite

SpecCodec == InitCodec /\ [][NextCodec]_vars

(***************************************************************************)
(* SpecShutdown: the shutdown triggers of the server process against its   *)
(* tracked sockets and the lazily opened database handle.  `shutdown`      *)
(* counts what the process has asked for: server.close calls, grace timers *)
(* armed, db.close calls, and the exit code once process.exit has run.     *)
(***************************************************************************)
MaxTriggers == 3
MaxSockets == 2

Signals == {"SIGINT", "SIGTERM", "uncaughtException"}
Sockets == 1..MaxSockets

Running == shutdown.exit = "running"

serverOf == <<now, rateLimitMap, concurrentRequests, req, res, proc, hist,
              calls, fs, validation, toolCalls, codec, sweepTimer>>

\* cleanup(): "if (db) { db.close(); db = null; }" followed by process.exit
cleanupAndExit(state, code) ==
    [state EXCEPT !.dbCloses = IF db = "open" THEN @ + 1 ELSE @,
                  !.exit = code]

\* a shutdown procedure without the isShuttingDown test
gracefulShutdownUnguarded(signal) ==
    /\ Running
    /\ Len(shutdown.signals) < MaxTriggers
    /\ isShuttingDown' = TRUE
    /\ shutdown' = [shutdown EXCEPT !.signals = Append(@, signal),
                                    !.closeCalls = @ + 1,
                                    !.closePending = @ + 1,
                                    !.timersArmed = @ + 1,
                                    !.timersPending = @ + 1]
    /\ UNCHANGED <<connections, db, serverOf>>

\* a SIGINT, a SIGTERM or an uncaught exception reaches the process:
\* gracefulShutdown(signal)
gracefulShutdown(signal) ==
    /\ Running
    /\ Len(shutdown.signals) < MaxTriggers
    /\ IF isShuttingDown
       THEN /\ shutdown' = [shutdown EXCEPT !.signals = Append(@, signal)]
            /\ UNCHANGED isShuttingDown
       ELSE /\ isShuttingDown' = TRUE
            /\ shutdown' = [shutdown EXCEPT !.signals = Append(@, signal),
                                            !.closeCalls = @ + 1,
                                            !.closePending = @ + 1,
                                            !.timersArmed = @ + 1,
                                            !.timersPending = @ + 1]
    /\ UNCHANGED <<connections, db, serverOf>>

\* server.on('connection'): a socket is accepted while the server listens
SocketOpen(conn) ==
    /\ Running
    /\ shutdown.closeCalls = 0
    /\ conn \notin connections
    /\ connections' = connections \cup {conn}
    /\ UNCHANGED <<isShuttingDown, db, shutdown, serverOf>>

\* conn.on('close'): a tracked socket has closed
SocketClose(conn) ==
    /\ Running
    /\ conn \in connections
    /\ connections' = connections \ {conn}
    /\ UNCHANGED <<isShuttingDown, db, shutdown, serverOf>>

\* getDatabase(): a tool call of a request in flight opens the handle
GetDatabase ==
    /\ Running
    /\ db = "null"
    /\ db' = "open"
    /\ UNCHANGED <<isShuttingDown, connections, shutdown, serverOf>>

\* the callback of server.close: every socket has ended
ServerClosed ==
    /\ Running
    /\ shutdown.closePending > 0
    /\ connections = {}
    /\ shutdown' = cleanupAndExit([shutdown EXCEPT !.closePending = @ - 1], "0")
    /\ db' = "null"
    /\ UNCHANGED <<isShuttingDown, connections, serverOf>>

\* a grace timer that exits without cleanup()
GraceTimerWithoutCleanup ==
    /\ Running
    /\ shutdown.timersPending > 0
    /\ shutdown' = [shutdown EXCEPT !.timersPending = @ - 1,
                                    !.destroyed = connections,
                                    !.exit = "1"]
    /\ UNCHANGED <<isShuttingDown, connections, db, serverOf>>

\* the grace timer: destroy the sockets left, clean up, exit
GraceTimer ==
    /\ Running
    /\ shutdown.timersPending > 0
    /\ shutdown' = cleanupAndExit([shutdown EXCEPT !.timersPending = @ - 1,
                                                   !.destroyed = connections], "1")
    /\ db' = "null"
    /\ UNCHANGED <<isShuttingDown, connections, serverOf>>

NextShutdown ==
    \/ \E signal \in Signals : gracefulShutdown(signal)
    \/ \E conn \in Sockets : SocketOpen(conn)
    \/ \E conn \in Sockets : SocketClose(conn)
    \/ GetDatabase
    \/ ServerClosed
    \/ GraceTimer

SpecShutdown == Init /\ [][NextShutdown]_vars

\* SpecShutdownFair: SpecShutdown where an armed grace timer fires (the event
\* loop runs due timers)
SpecShutdownFair == SpecShutdown /\ WF_vars(GraceTimer)

(***************************************************************************)
(*                              Properties                                 *)
(***************************************************************************)
Inside == {r \in Reqs : req[r].pc = "delegating"}

\* C1: with ceiling K = MAX_CONCURRENT_REQUESTS and more than K requests in
\* flight, concurrentRequests always equals the number of requests that
\* passed the admission test and have not left processRequest, it stays in
\* 0..K, at most K delegates run at once, and a request whose 'end' finds the
\* counter at K is answered 503 and never invokes the delegate.
C1_AdmissionCeiling ==
    /\ [](/\ concurrentRequests = Cardinality(Inside)
          /\ concurrentRequests \in 0..MAX_CONCURRENT_REQUESTS
          /\ Cardinality({r \in Reqs : proc[r].delegate = "running"})
               <= MAX_CONCURRENT_REQUESTS
          /\ \A r \in Reqs : proc[r].admission = "denied" =>
                /\ res[r].wireStatus = 503
                /\ proc[r].queries = 0
                /\ proc[r].acquired = 0)
    /\ [][\A r \in Reqs :
            (/\ req[r].pc = "collecting"
             /\ req'[r].pc # "collecting"
             /\ ~req[r].requestAborted
             /\ concurrentRequests = MAX_CONCURRENT_REQUESTS)
            => (/\ proc'[r].admission = "denied"
                /\ res'[r].wireStatus = 503
                /\ req'[r].pc = "done"
                /\ concurrentRequests' = concurrentRequests)]_vars

\* C1 witness: the budget is full and a further request has been refused
C1_Witness ==
    /\ concurrentRequests = MAX_CONCURRENT_REQUESTS
    /\ \E r \in Reqs : proc[r].admission = "denied" /\ res[r].wireStatus = 503

CallsOf(ip) == SelectSeq(calls, LAMBDA c : c.ip = ip)

\* the fixed window a call falls into, from the call times alone: the
\* window's reset time and the call's position in the window
RECURSIVE WindowOf(_, _)
WindowOf(cs, i) ==
    IF i = 1 THEN [reset |-> cs[1].t + RATE_LIMIT_WINDOW, pos |-> 1]
    ELSE LET p == WindowOf(cs, i - 1)
         IN  IF cs[i].t > p.reset
             THEN [reset |-> cs[i].t + RATE_LIMIT_WINDOW, pos |-> 1]
             ELSE [reset |-> p.reset, pos |-> p.pos + 1]

\* C3: for one identity and ceiling N = RATE_LIMIT_MAX_REQUESTS, of the calls
\* made no later than a window's reset time the first N are allowed and the
\* next is denied; the first call strictly after the reset time is allowed
\* and leaves the entry with count 1 and reset time = its time + the window.
C3_FixedWindow ==
    \A ip \in IPs :
        LET cs == CallsOf(ip)
        IN  \A i \in 1..Len(cs) :
                LET w == WindowOf(cs, i)
                IN  /\ cs[i].allowed <=> (w.pos <= RATE_LIMIT_MAX_REQUESTS)
                    /\ w.pos = 1 =>
                          cs[i].entry = [count |-> 1,
                                         resetTime |-> cs[i].t + RATE_LIMIT_WINDOW]

\* C3 witness: N allowed calls and a denied one in one window, then an
\* allowed call after the window's reset time
C3_Witness ==
    \E ip \in IPs :
        LET cs == CallsOf(ip)
            n == RATE_LIMIT_MAX_REQUESTS
        IN  /\ Len(cs) >= n + 2
            /\ \A i \in 1..n : cs[i].allowed
            /\ ~cs[n + 1].allowed
            /\ cs[n + 1].t <= cs[1].t + RATE_LIMIT_WINDOW
            /\ cs[n + 2].allowed
            /\ cs[n + 2].t > cs[1].t + RATE_LIMIT_WINDOW
            /\ cs[n + 2].entry.count = 1

\* C4: when a deadline of a request fires while its delegate runs, whether
\* the request-level timer or the delegation deadline, the delegation's
\* cancellation signal has fired: no delegate keeps running, unsignalled,
\* for a request whose deadline has passed.
C4_OneCancellationSignal ==
    \A r \in Reqs :
        (req[r].requestAborted /\ proc[r].delegate = "running") => proc[r].aborted

\* the segments a is a prefix of the segments b
IsSegmentPrefix(a, b) == Len(a) <= Len(b) /\ SubSeq(b, 1, Len(a)) = a

\* the path lies in the storage directory: it is the directory or below it
InsideRoot(p) == IsSegmentPrefix(SegmentsOf(FILE_STORAGE_DIR), SegmentsOf(p))

IsAccessDenied(result) == ~result.ok /\ result.error[1] = AccessDenied

\* C5: every path with a '..' segment whose normalized resolution against
\* the storage directory is neither that directory nor below it (a sibling
\* directory whose name begins with the directory's name included) is
\* rejected with an 'Access denied' error.
C5_TraversalRejected ==
    \A i \in 1..Len(validation) :
        LET v == validation[i]
        IN  (/\ \E k \in 1..Len(Split(v.filepath, Sep)) :
                    Split(v.filepath, Sep)[k] = DotDot
             /\ ~InsideRoot(FILE_STORAGE_DIR \o Sep \o v.filepath))
            => IsAccessDenied(v.result)

\* a component of the path, inside the storage directory, is a symbolic
\* link whose target lies outside the storage directory
EscapingLinkOn(links, filepath) ==
    \E k \in 1..Len(links) :
        /\ InsideRoot(links[k][1])
        /\ IsSegmentPrefix(SegmentsOf(links[k][1]),
                           SegmentsOf(FILE_STORAGE_DIR \o Sep \o filepath))
        /\ ~InsideRoot(links[k][2])

\* C6: a call made while a component of the path inside the storage
\* directory is a symbolic link to a place outside it is rejected, also when
\* an earlier call with the same path was accepted; and two calls with the
\* same path under the same links decide alike.
C6_EscapingSymlinkRejected ==
    /\ \A i \in 1..Len(validation) :
          EscapingLinkOn(validation[i].links, validation[i].filepath)
              => ~validation[i].result.ok
    /\ \A i, j \in 1..Len(validation) :
          (/\ validation[i].filepath = validation[j].filepath
           /\ validation[i].links = validation[j].links)
          => validation[i].result = validation[j].result

\* C7: once a chunk has made the body exceed MAX_REQUEST_SIZE the request is
\* answered 413 and nothing else, the collected body never grows again, and
\* the request is never parsed, never reaches the admission test and never
\* invokes the delegate, whatever events follow.
C7_OversizeBodyStops ==
    /\ [](\A r \in Reqs : req[r].destroyed =>
             /\ req[r].requestSize > MAX_REQUEST_SIZE
             /\ res[r].wireStatus = 413
             /\ res[r].sent = 1
             /\ proc[r].parse = "none"
             /\ proc[r].admission = "none"
             /\ proc[r].queries = 0
             /\ proc[r].acquired = 0)
    /\ [][\A r \in Reqs :
            /\ (req[r].destroyed => req'[r].rawRequest = req[r].rawRequest)
            /\ (/\ req[r].pc = "collecting"
                /\ ~req[r].requestAborted
                /\ req'[r].requestSize > MAX_REQUEST_SIZE)
               => req'[r].destroyed /\ res'[r].wireStatus = 413]_vars

\* C7 witness: an oversize request whose 'end' event arrived after the 413
C7_Witness ==
    \E r \in Reqs :
        /\ req[r].destroyed
        /\ req[r].pc = "done"
        /\ res[r].wireStatus = 413
        /\ Len(req[r].rawRequest) > 0

\* C8: every request whose parse fails is answered 400
C8_ParseFailureIs400 ==
    \A r \in Reqs :
        proc[r].parse = "failed" =>
            /\ res[r].wireStatus = 400
            /\ res[r].sent = 1

\* C9: the admission test is made only for a request that has parsed
\* successfully, so a request whose parse fails (or would fail) is neither
\* granted nor refused a lease.
C9_AdmissionAfterParse ==
    \A r \in Reqs :
        proc[r].admission # "none" =>
            /\ proc[r].parse = "ok"
            /\ parseHttpRequest(fullRequestOf(req[r].url, req[r].rawRequest)).ok

\* C10: every response written to a client carries an X-Request-Id header
\* whose value is the identifier generated for the request
C10_RequestIdOnEveryResponse ==
    \A r \in Reqs :
        res[r].sent > 0 =>
            /\ HasKey(res[r].headers, ToLowerCase(XRequestId))
            /\ Get(res[r].headers, ToLowerCase(XRequestId)) = requestIdOf(r)

\* the body is the JSON of one of the fixed 'Internal Server Error' objects
GenericErrorBody(body) == Len(body) >= 3 /\ body[3] = "Internal Server Error"

Unusable == {"incomplete_envelope", "no_envelope"}

\* C11 (as stated): whenever the delegate's output yields no envelope, or an
\* envelope whose preamble lacks version, status or reason, the client
\* receives a 500 with the fixed 'Internal Server Error' body.
C11_UnusableEnvelope500 ==
    \A r \in Reqs :
        proc[r].outcome \in Unusable =>
            res[r].wireStatus = 500 /\ GenericErrorBody(res[r].body)

\* C11 (amended): an unusable envelope is never written to the client.  The
\* client receives exactly one response: the 408 of the request timer when
\* that fired first; else 504 when formatHttpResponse refused the envelope
\* after the delegation deadline had fired; else the generic 500.
C11_UnusableEnvelopeReplaced ==
    \A r \in Reqs :
        proc[r].outcome \in Unusable =>
            /\ res[r].sent = 1
            /\ IF req[r].requestAborted
               THEN res[r].wireStatus = 408
               ELSE IF proc[r].aborted /\ proc[r].outcome = "incomplete_envelope"
               THEN res[r].wireStatus = 504
               ELSE res[r].wireStatus = 500 /\ GenericErrorBody(res[r].body)

\* C11 witness: an envelope without a status was replaced by the generic 500
C11_Witness ==
    \E r \in Reqs :
        /\ proc[r].outcome = "incomplete_envelope"
        /\ ~req[r].requestAborted
        /\ ~proc[r].aborted
        /\ res[r].wireStatus = 500
        /\ GenericErrorBody(res[r].body)

\* C12: every response transmitted has a status code in 100..599
C12_StatusInRange ==
    \A r \in Reqs :
        res[r].sent > 0 => res[r].wireStatus \in 100..599

\* C13: when the stream reported a result message with an error subtype,
\* the response processRequest returns is chosen by the failure class alone:
\* 503 for budget exhaustion, 500 for excessive iteration, 500 for any other
\* error subtype, whatever text the delegate emitted.  (Stated for the
\* requests whose response was not already written by the request timer.)
C13_FailureClassDecides ==
    \A r \in Reqs :
        (req[r].pc = "done" /\ ~req[r].requestAborted) =>
            /\ (proc[r].outcome = "error_max_budget_usd" => res[r].wireStatus = 503)
            /\ (proc[r].outcome = "error_max_turns" => res[r].wireStatus = 500)
            /\ (proc[r].sawError => res[r].wireStatus = 500)

\* C14: when the delegation deadline fired before the delegate finished, the
\* request is answered 504, and nothing built from the delegate's output is
\* sent.  (Stated for the requests whose response was not already written
\* by the request timer.)
C14_Deadline504 ==
    \A r \in Reqs :
        (req[r].pc = "done" /\ proc[r].aborted /\ ~req[r].requestAborted) =>
            res[r].wireStatus = 504

\* C15: a firing of the request timer for a request with no response yet
\* writes 408, and a firing for a request already answered writes nothing;
\* a 408 written by the timer stays the only response of the request,
\* whatever the 'data' and 'end' listeners and processRequest do afterwards.
C15_Timeout408Only ==
    /\ [][\A r \in Reqs :
            (req'[r].timedOut /\ ~req[r].timedOut) =>
                IF res[r].sent = 0
                THEN res'[r].wireStatus = 408 /\ res'[r].sent = 1
                ELSE res'[r] = res[r]]_vars
    /\ [][\A r \in Reqs :
            (req[r].timedOut /\ res[r].wireStatus = 408) =>
                /\ res'[r].sent = 1
                /\ res'[r].wireStatus = 408
                /\ res'[r].body = res[r].body
                /\ res'[r].headers = res[r].headers]_vars
    /\ [](\A r \in Reqs : res[r].sent <= 1)

\* C15 witness: the timer fired during the delegation, processRequest has
\* returned since, and the 408 is the one response
C15_Witness ==
    \E r \in Reqs :
        /\ req[r].timedOut
        /\ req[r].pc = "done"
        /\ proc[r].outcome = "envelope"
        /\ res[r].wireStatus = 408
        /\ res[r].sent = 1

\* C16: a connection whose identity checkRateLimit denies is answered 429
\* with a Retry-After header; no body is collected for it, it is never
\* parsed, never reaches the admission test or the delegate, and leaves
\* concurrentRequests as it was.
C16_RateLimited429 ==
    /\ [][\A r \in Reqs :
            (/\ req[r].pc = "idle"
             /\ req'[r].pc # "idle"
             /\ ~checkRateLimit(rateLimitMap, req'[r].ip, now).allowed)
            => (/\ req'[r].pc = "limited"
                /\ res'[r].wireStatus = 429
                /\ concurrentRequests' = concurrentRequests)]_vars
    /\ [](\A r \in Reqs :
            req[r].pc = "limited" =>
                /\ res[r].wireStatus = 429
                /\ res[r].sent = 1
                /\ HasKey(res[r].headers, ToLowerCase(RetryAfter))
                /\ req[r].requestSize = 0
                /\ req[r].rawRequest = <<>>
                /\ proc[r] = NewProc)
    /\ [][\A r \in Reqs : req[r].pc = "limited" => req'[r].pc = "limited"]_vars

\* C16 witness: a connection was refused 429 while another request holds a
\* lease
C16_Witness ==
    \E r \in Reqs :
        /\ req[r].pc = "limited"
        /\ res[r].wireStatus = 429
        /\ concurrentRequests > 0

\* C17: when the 'end' listener calls processRequest for a request that is
\* admitted and parses, and the prompt built from it exceeds MAX_PROMPT_SIZE,
\* the request is answered 413, the delegate is not invoked, no deadline
\* timer is started, and the counter is back at its value before the call.
C17_PromptTooLarge413 ==
    /\ [][\A r \in Reqs :
            LET parsed == parseHttpRequest(fullRequestOf(req'[r].url, req[r].rawRequest))
            IN  (/\ req[r].pc = "collecting"
                 /\ req'[r].pc # "collecting"
                 /\ ~req[r].requestAborted
                 /\ concurrentRequests < MAX_CONCURRENT_REQUESTS
                 /\ parsed.ok
                 /\ 1 + Len(parsed.body) > MAX_PROMPT_SIZE)
                => (/\ req'[r].pc = "done"
                    /\ proc'[r].outcome = "prompt_too_large"
                    /\ res'[r].wireStatus = 413
                    /\ concurrentRequests' = concurrentRequests)]_vars
    /\ [](\A r \in Reqs :
            proc[r].outcome = "prompt_too_large" =>
                /\ res[r].wireStatus = 413
                /\ res[r].sent = 1
                /\ proc[r].queries = 0
                /\ proc[r].timers = 0
                /\ ~proc[r].timer
                /\ proc[r].delegate = "none"
                /\ proc[r].acquired = 1
                /\ proc[r].released = 1)

\* C17 witness: a request with a body was answered 413 for its prompt
C17_Witness ==
    \E r \in Reqs :
        /\ proc[r].outcome = "prompt_too_large"
        /\ Len(req[r].rawRequest) > 0
        /\ res[r].wireStatus = 413
        /\ concurrentRequests = 0

\* C18: for every request the admission test is made at most once and the
\* delegate is invoked at most once: after processRequest was entered for a
\* request, no later event, failure outcomes included, enters it again.
C18_NoRetry ==
    /\ [](\A r \in Reqs :
            /\ proc[r].queries <= 1
            /\ proc[r].timers <= 1
            /\ proc[r].acquired <= 1)
    /\ [][\A r \in Reqs :
            proc[r].admission # "none" =>
                /\ proc'[r].admission = proc[r].admission
                /\ proc'[r].queries = proc[r].queries
                /\ proc'[r].acquired = proc[r].acquired
                /\ proc'[r].delegate # "running" \/ proc[r].delegate = "running"]_vars

\* C18 witness: a delegation that ended in a failure (504) was not run again
C18_Witness ==
    \E r \in Reqs :
        /\ req[r].pc = "done"
        /\ res[r].wireStatus = 504
        /\ proc[r].queries = 1
        /\ proc[r].delegate = "closed"

\* the processing of r threw and no catch block had a status of its own for
\* it: the stream threw before the deadline, or the writing of the
\* delegate's response threw
ThrewUnexpectedly(r) ==
    \/ proc[r].outcome \in {"thrown", "thrown_invalid_request"}
    \/ proc[r].outcome = "envelope" /\ res[r].wireStatus \notin 100..999
    \/ proc[r].outcome = "envelope" /\ res[r].statusCode # res[r].wireStatus

\* a request whose 'end' listener has called processRequest is eventually
\* answered, and a request the handler is done with has exactly one response
EventuallyOneResponse ==
    /\ \A r \in 1..StreamRequests :
          (req[r].pc = "delegating") ~> (req[r].pc = "done" /\ res[r].sent = 1)
    /\ [](\A r \in Reqs : req[r].pc = "done" => res[r].sent = 1)

C20_ShutdownRunsOnce ==
    /\ shutdown.closeCalls <= 1
    /\ shutdown.timersArmed <= 1
    /\ shutdown.dbCloses <= 1
    /\ (Len(shutdown.signals) > 0
        => isShuttingDown /\ shutdown.closeCalls = 1 /\ shutdown.timersArmed = 1)

\* C20 witness: a second and a third trigger arrived during the grace
\* period, the grace timer ran and closed the open database handle
C20_Witness ==
    /\ Len(shutdown.signals) = MaxTriggers
    /\ shutdown.signals[1] # shutdown.signals[2]
    /\ shutdown.exit = "1"
    /\ shutdown.dbCloses = 1
    /\ shutdown.destroyed # {}

\* C21: once a trigger has been received the process eventually exits; it
\* exits with code 0 only when no tracked socket is open, with code 1 after
\* destroying every tracked socket still open, and in both cases the
\* database handle has been closed (db is null) when it exits.
C21_ShutdownExits ==
    /\ (Len(shutdown.signals) > 0) ~> (shutdown.exit # "running")
    /\ [](shutdown.exit # "running"
          => /\ db = "null"
             /\ shutdown.dbCloses <= 1
             /\ Len(shutdown.signals) > 0
             /\ (shutdown.exit = "0" => connections = {})
             /\ (shutdown.exit = "1" => shutdown.destroyed = connections))

\* C21 witness: every socket closed during the grace period and the process
\* exited with code 0 after closing the open database handle
C21_Witness ==
    /\ shutdown.exit = "0"
    /\ shutdown.dbCloses = 1
    /\ db = "null"
    /\ Len(shutdown.signals) > 0

\* nothing is at the path p: no file, no directory, no symbolic link
Missing(links, p) == ~realpath(links, p).ok /\ ~HasKey(links, p)

\* p is a directory of the storage tree: the storage directory or below it
DirectoryInRoot(links, p) ==
    /\ stat(links, p).ok
    /\ stat(links, p).isDirectory
    /\ InsideRoot(p)
    /\ InsideRoot(stat(links, p).real)

\* C22: a write_file call with a relative path below the storage directory
\* whose parent directory is missing while the parent's parent exists
\* succeeds and makes that one directory and no other; a call that needs
\* more than one missing level is refused.
C22_OneLevelCreated ==
    \A i \in 1..Len(toolCalls) :
        LET c == toolCalls[i]
            p == resolve(SAFE_BASE_DIR_ORIGINAL, c.filepath)
            parent == dirname(p)
        IN  (/\ c.tool = "write_file"
             /\ c.size <= MAX_WRITE_SIZE
             /\ InsideRoot(p)
             /\ p # SAFE_BASE_DIR_ORIGINAL
             /\ Missing(c.links, parent))
            => IF DirectoryInRoot(c.links, dirname(parent))
               THEN c.result.success /\ c.result.created = {parent}
               ELSE ~c.result.success

\* the fixed reasons of the path policy
PolicyReasons ==
    {<<AccessDenied, reason>> :
        reason \in {"Absolute paths not allowed", "Null bytes in path",
                    "Path cannot end with separator",
                    "Path is outside allowed directory",
                    "Symlink points outside allowed directory",
                    "Parent directory outside allowed directory",
                    "Parent directory does not exist",
                    "Cannot create nested directories"}}

GenericFailures == {FileOperationFailed, DirectoryOperationFailed}

FsErrorCodes == {"ENOENT", "ENOTDIR", "ELOOP", "EISDIR"}

\* the text holds a path (every path of the model begins with the separator)
\* or the code of a file system error
LeaksInternals(error) ==
    \E k \in 1..Len(error) : error[k] = "/" \/ error[k] \in FsErrorCodes

\* the refusal of list_directory for a directory with too many entries
IsTooManyEntries(c) ==
    /\ c.tool = "list_directory"
    /\ c.result.error[1] = "Directory has too many entries: "

\* C23 (as stated): the error text of every failed call of read_file,
\* write_file or list_directory is one of the fixed 'Access denied' reasons
\* or a fixed generic failure string, and holds neither a path nor the text
\* of a file system error.
C23_OnlyPolicyOrGeneric ==
    \A i \in 1..Len(toolCalls) :
        ~toolCalls[i].result.success
        => /\ toolCalls[i].result.error \in PolicyReasons \cup GenericFailures
           /\ ~LeaksInternals(toolCalls[i].result.error)

\* C23 (amended): the error text of every failed call is one of the fixed
\* 'Access denied' reasons, a fixed generic failure string or, for
\* list_directory on a directory with more than MAX_DIRECTORY_ENTRIES
\* entries, the message that states the number of entries and the limit; it
\* never holds a path or the text of a file system error.
C23_NoInternalsInErrors ==
    \A i \in 1..Len(toolCalls) :
        ~toolCalls[i].result.success
        => /\ \/ toolCalls[i].result.error \in PolicyReasons \cup GenericFailures
              \/ IsTooManyEntries(toolCalls[i])
           /\ ~LeaksInternals(toolCalls[i].result.error)

\* C23 witness: the path passed the validation, fs.stat failed with ENOENT,
\* and read_file answered the generic failure string
C23_Witness ==
    \E i \in 1..Len(toolCalls) :
        LET c == toolCalls[i]
            v == validateAndResolvePath(c.links, c.filepath)
        IN  /\ c.tool = "read_file"
            /\ v.ok
            /\ stat(c.links, v.path).code = "ENOENT"
            /\ c.result.error = FileOperationFailed

\* the statement is one of the PRAGMAs of the read-only list, called with
\* an argument list
IsWhitelistedPragma(sqlQuery) ==
    LET q == TrimTokens(sqlQuery)
    IN  /\ IsPragma(sqlQuery)
        /\ Len(q) >= 4
        /\ UpperToken(q[3]) \in ReadOnlyPragmas
        /\ \E k \in 4..Len(q) : q[k] = "("

\* C24: a PRAGMA statement that is not one of the read-only PRAGMAs of the
\* list is never executed by the sqlite tool, neither with all() nor with
\* run().
C24_OnlyWhitelistedPragmas ==
    \A i \in 1..Len(toolCalls) :
        (/\ toolCalls[i].tool = "sqlite"
         /\ IsPragma(toolCalls[i].query)
         /\ ~IsWhitelistedPragma(toolCalls[i].query))
        => toolCalls[i].result.executed = "none"

RECURSIVE TrimAll(_)
TrimAll(values) ==
    IF values = <<>> THEN <<>> ELSE <<Trim(values[1])>> \o TrimAll(Tail(values))

\* the headers of the envelope by lowercased name, with the values of each
\* name in order; names without a value are left out
RECURSIVE HeadersOf(_)
HeadersOf(normalizedHeaders) ==
    IF normalizedHeaders = <<>> THEN <<>>
    ELSE (IF normalizedHeaders[1][2] = <<>> THEN <<>> ELSE <<normalizedHeaders[1]>>)
         \o HeadersOf(Tail(normalizedHeaders))

\* the same, with every value trimmed as the header loop trims it
RECURSIVE TrimmedHeadersOf(_)
TrimmedHeadersOf(headers) ==
    IF headers = <<>> THEN <<>>
    ELSE << <<headers[1][1], TrimAll(headers[1][2])>> >> \o TrimmedHeadersOf(Tail(headers))

\* no value of the envelope's headers holds a carriage return or a line feed
SingleLineValues(envelope) ==
    \A i \in 1..Len(envelope.headers) :
        \A j \in 1..Len(envelope.headers[i][2]) :
            \A k \in 1..Len(envelope.headers[i][2][j]) :
                envelope.headers[i][2][j][k] \notin {CR, LF}

\* the Content-Length header formatHttpResponse adds
AddedContentLength(envelope) ==
    IF /\ ~HasKey(normalizeHeaders(envelope.headers, 1, <<>>), ToLowerCase(ContentLength))
       /\ bodyStringOf(envelope) # <<>>
    THEN << <<ToLowerCase(ContentLength),
              <<NumberToText(ByteLength(bodyStringOf(envelope)))>> >> >>
    ELSE <<>>

C26_RequestLineNonEmpty ==
    (codec.kind = "request" /\ codec.done /\ codec.parsed.ok)
    => /\ codec.parsed.method # <<>>
       /\ codec.parsed.path # <<>>
       /\ codec.parsed.version # <<>>


\* a step that is a call of checkRateLimit, and one that is a denied call
IsRateCall == Len(calls') = Len(calls) + 1
IsDeniedCall == IsRateCall /\ ~calls'[Len(calls')].allowed

\* C27: in every reachable state each rate-limit entry has a count from 1 to
\* RATE_LIMIT_MAX_REQUESTS, and a denied call of checkRateLimit leaves the
\* whole table, the count and the reset time of every identity, as it was.
C27_CountInRange ==
    /\ [](\A ip \in DOMAIN rateLimitMap :
            /\ 1 <= rateLimitMap[ip].count
            /\ rateLimitMap[ip].count <= RATE_LIMIT_MAX_REQUESTS)
    /\ [][IsDeniedCall => rateLimitMap' = rateLimitMap]_vars

\* C27 witness: a call was denied while the table held two identities, the
\* caller's entry at the ceiling
C27_Witness ==
    /\ calls # <<>>
    /\ ~calls[Len(calls)].allowed
    /\ DOMAIN rateLimitMap = IPs
    /\ rateLimitMap[calls[Len(calls)].ip].count = RATE_LIMIT_MAX_REQUESTS
    /\ \E ip \in IPs : rateLimitMap[ip].count < RATE_LIMIT_MAX_REQUESTS

\* the allowed calls of one identity made from time a to time a + length
AllowedWithin(ip, a, length) ==
    {i \in 1..Len(calls) : /\ calls[i].ip = ip
                           /\ calls[i].allowed
                           /\ a <= calls[i].t
                           /\ calls[i].t <= a + length}

\* C28: for any identity and any time interval no longer than one window
\* length, at most 2 x RATE_LIMIT_MAX_REQUESTS calls of checkRateLimit for
\* that identity return allowed within the interval, whatever the timing of
\* the requests and of the sweeps.
C28_TwiceTheCeiling ==
    \A ip \in IPs : \A a \in 0..MaxNow : \A length \in 0..RATE_LIMIT_WINDOW :
        Cardinality(AllowedWithin(ip, a, length)) <= 2 * RATE_LIMIT_MAX_REQUESTS

\* C28 witness: an interval of one window length holds more allowed calls of
\* one identity than the ceiling, taken from two windows, and further calls
\* of the log fall outside the interval or were denied
C28_Witness ==
    \E ip \in IPs : \E a \in 0..MaxNow :
        LET I == AllowedWithin(ip, a, RATE_LIMIT_WINDOW)
        IN  /\ Cardinality(I) > RATE_LIMIT_MAX_REQUESTS
            /\ \E i, j \in I : calls[i].entry.resetTime # calls[j].entry.resetTime
            /\ Len(calls) > 2 * RATE_LIMIT_MAX_REQUESTS

\* the identities a sweep at the present time has to remove
Expired == {ip \in DOMAIN rateLimitMap :
              now > rateLimitMap[ip].resetTime + RATE_LIMIT_WINDOW}

\* a step that is a run of the periodic sweep
IsSweep == sweepTimer' # sweepTimer

\* C29: each run of the periodic sweep removes exactly the identities whose
\* entry satisfies now > resetTime + window length and leaves every other
\* entry as it was; so an entry never stays in the table for more than two
\* sweep periods (and the lateness of the timer) past its reset time, which
\* only a request of that identity can move.
C29_SweepEvictsExpired ==
    /\ [][IsSweep =>
            /\ DOMAIN rateLimitMap' = DOMAIN rateLimitMap \ Expired
            /\ \A ip \in DOMAIN rateLimitMap' : rateLimitMap'[ip] = rateLimitMap[ip]]_vars
    /\ [](\A ip \in DOMAIN rateLimitMap :
            now <= rateLimitMap[ip].resetTime + 2 * RATE_LIMIT_WINDOW + MaxLate)

\* C29 witness: an identity that called is gone from the table, removed by a
\* sweep later than the first one, which kept the entry of the other identity
C29_Witness ==
    \E ip \in IPs :
        /\ CallsOf(ip) # <<>>
        /\ ip \notin DOMAIN rateLimitMap
        /\ DOMAIN rateLimitMap = IPs \ {ip}
        /\ sweepTimer > 2 * RATE_LIMIT_WINDOW

\* the normalized path of a call, as validateAndResolvePath computes it
NormalizedOf(filepath) == normalize(resolve(SAFE_BASE_DIR_ORIGINAL, filepath))

\* the call got past the tests of the literal path and the prefix check, and
\* its target did not exist
TargetMissing(v) ==
    /\ ~isAbsolute(v.filepath)
    /\ ~endsWith(v.filepath, Sep)
    /\ startsWith(ToLowerCase(NormalizedOf(v.filepath)), SAFE_BASE_DIR)
    /\ realpath(v.links, NormalizedOf(v.filepath)).code = "ENOENT"

\* C30: when the target of a path that passed the prefix check does not
\* exist, validateAndResolvePath accepts, returning the normalized path, if
\* and only if the parent directory exists and its real path lies inside the
\* storage directory; otherwise it rejects.
C30_MissingTargetByParent ==
    \A i \in 1..Len(validation) :
        LET v == validation[i]
            realParent == realpath(v.links, dirname(NormalizedOf(v.filepath)))
        IN  TargetMissing(v) =>
               /\ v.result.ok <=> (realParent.ok /\ InsideRoot(realParent.path))
               /\ v.result.ok => v.result.path = NormalizedOf(v.filepath)

\* a request of the codec that parseHttpRequest has parsed
RequestParsed == codec.kind = "request" /\ codec.done /\ codec.parsed.ok

\* C31: the body parseHttpRequest returns is exactly the text after the
\* first empty line of the input (the first CRLF CRLF), unchanged, later
\* empty lines included; without an empty line the body is empty.
C31_BodyAfterFirstEmptyLine ==
    RequestParsed =>
        LET k == IndexOf(codec.rawRequest, CRLF \o CRLF)
        IN  codec.parsed.body = IF k = 0 THEN <<>>
                                ELSE Substring(codec.rawRequest, k + 4)

\* C31 witness: a parsed request whose body holds an empty line of its own
C31_Witness ==
    /\ RequestParsed
    /\ IndexOf(codec.parsed.body, CRLF \o CRLF) > 0
    /\ Len(codec.parsed.body) < Len(codec.rawRequest)

\* the query string of a request target: the text after the first '?'
QueryStringOf(fullPath) ==
    LET q == IndexOf(fullPath, <<"?">>)
    IN  IF q = 0 THEN <<>> ELSE Substring(fullPath, q + 1)

\* the key and the value of one pair, read at the first '='
KeyOf(pair) ==
    LET e == IndexOf(pair, <<"=">>)
    IN  IF e = 0 THEN pair ELSE SubSeq(pair, 1, e - 1)

WholeValueOf(pair) ==
    LET e == IndexOf(pair, <<"=">>)
    IN  IF e = 0 THEN <<>> ELSE Substring(pair, e + 1)

DecodedKeyOf(pair) == decodeURIComponent(KeyOf(pair)).val

\* C32: the query mapping parseHttpRequest builds from the text after the
\* first '?' of the target holds exactly the (decoded) non-empty keys of the
\* '&'-separated pairs, and the value of a key is that of its last pair: empty
\* for a pair without '=', else the whole (decoded) text after the first '='.
C32_QueryMapping ==
    RequestParsed =>
        LET pairs == Split(QueryStringOf(codec.parsed.fullPath), <<"&">>)
            Kept == {i \in 1..Len(pairs) : KeyOf(pairs[i]) # <<>>}
            query == codec.parsed.query
        IN  /\ {query[n][1] : n \in 1..Len(query)} = {DecodedKeyOf(pairs[i]) : i \in Kept}
            /\ \A i \in Kept :
                  (\A j \in Kept : j > i => DecodedKeyOf(pairs[j]) # DecodedKeyOf(pairs[i]))
                  => Get(query, DecodedKeyOf(pairs[i])) = decodeURIComponent(WholeValueOf(pairs[i])).val

\* an envelope of the codec that formatHttpResponse has accepted
ResponseFormatted == codec.kind = "response" /\ codec.done /\ codec.accepted

\* the values an envelope gives under any casing of a lowercased name, from
\* entry i on, in the order of the envelope
RECURSIVE ValuesUnder(_, _, _)
ValuesUnder(headers, lowerName, i) ==
    IF i > Len(headers) THEN <<>>
    ELSE (IF ToLowerCase(headers[i][1]) = lowerName THEN headers[i][2] ELSE <<>>)
         \o ValuesUnder(headers, lowerName, i + 1)

\* the header lines the envelope calls for, from entry i on: at the first
\* appearance of a name, one line for each of its values under any casing
RECURSIVE ExpectedHeaderLines(_, _)
ExpectedHeaderLines(headers, i) ==
    IF i > Len(headers) THEN <<>>
    ELSE LET lowerName == ToLowerCase(headers[i][1])
             values == ValuesUnder(headers, lowerName, 1)
             first == \A j \in 1..(i - 1) : ToLowerCase(headers[j][1]) # lowerName
         IN  (IF first
              THEN [n \in 1..Len(values) |->
                      properName(lowerName) \o <<":", " ">> \o values[n]]
              ELSE <<>>)
             \o ExpectedHeaderLines(headers, i + 1)

StatusLineOf(preamble) ==
    preamble.version \o <<" ">> \o NumberToText(preamble.status) \o <<" ">>
    \o preamble.reason

\* C33: the text formatHttpResponse writes has, after the status line, one
\* 'Name: value' line per value of the envelope, the values given under
\* names that differ only in letter case merged into one run in the order
\* they were supplied, the names in the order of their first appearance;
\* what follows is the end of the headers or the appended Content-Length.
C33_HeadersMergedInOrder ==
    ResponseFormatted =>
        LET head == Join(<<StatusLineOf(codec.envelope.preamble)>>
                         \o ExpectedHeaderLines(codec.envelope.headers, 1), CRLF)
                    \o CRLF
        IN  /\ startsWith(codec.text, head)
            /\ \/ IsPrefixAt(codec.text, CRLF, Len(head) + 1)
               \/ IsPrefixAt(codec.text, ContentLength \o <<":", " ">>, Len(head) + 1)

\* C33 witness: an accepted envelope with two casings of one name apart from
\* each other, with three values between them
C33_Witness ==
    /\ ResponseFormatted
    /\ \E i, j \in 1..Len(codec.envelope.headers) :
          /\ j > i + 1
          /\ codec.envelope.headers[i][1] # codec.envelope.headers[j][1]
          /\ ToLowerCase(codec.envelope.headers[i][1])
                = ToLowerCase(codec.envelope.headers[j][1])
          /\ Len(codec.envelope.headers[i][2]) + Len(codec.envelope.headers[j][2]) = 3

\* the envelope gives a Content-Length header under some casing
SuppliesContentLength(envelope) ==
    \E i \in 1..Len(envelope.headers) :
        ToLowerCase(envelope.headers[i][1]) = ToLowerCase(ContentLength)

\* the number of bytes of the UTF-8 encoding of a text: two for each
\* character outside ASCII that the model has, one for every other
RECURSIVE EncodedBytes(_)
EncodedBytes(text) ==
    IF text = <<>> THEN 0
    ELSE (IF text[1] = "é" THEN 2 ELSE Len(text[1])) + EncodedBytes(Tail(text))

\* the Content-Length line for a text
ContentLengthLine(text) ==
    ContentLength \o <<":", " ">> \o NumberToText(EncodedBytes(text))

\* C34: formatHttpResponse appends a Content-Length line exactly when the
\* envelope gives no Content-Length header under any casing and the final
\* body text is not empty, and the value is the number of UTF-8 bytes of
\* that text; otherwise the header lines are those of the envelope alone.
C34_ContentLengthAppended ==
    ResponseFormatted =>
        LET envelope == codec.envelope
            bodyString == bodyStringOf(envelope)
            own == ExpectedHeaderLines(envelope.headers, 1)
            appended == IF ~SuppliesContentLength(envelope) /\ bodyString # <<>>
                        THEN <<ContentLengthLine(bodyString)>> ELSE <<>>
        IN  codec.text = Join(<<StatusLineOf(envelope.preamble)>> \o own \o appended
                              \o << <<>>, bodyString >>, CRLF)

\* C34 witness: a body whose byte count differs from its character count,
\* sent with the appended Content-Length
C34_Witness ==
    /\ ResponseFormatted
    /\ ~SuppliesContentLength(codec.envelope)
    /\ EncodedBytes(bodyStringOf(codec.envelope)) # Len(bodyStringOf(codec.envelope))
    /\ HasKey(codec.headers, ToLowerCase(ContentLength))
    /\ Get(codec.headers, ToLowerCase(ContentLength))
         = <<NumberToText(EncodedBytes(bodyStringOf(codec.envelope)))>>

\* C35: at most one response is ever written for a request, under every
\* interleaving of its data, end, error and timer events and of the end of
\* its delegation: once a response is sent, no later event sends another or
\* changes the status, the headers or the body that were sent.
C35_OneResponse ==
    /\ [](\A r \in Reqs : res[r].sent <= 1 /\ (res[r].sent = 1 <=> res[r].headersSent))
    /\ [][\A r \in Reqs :
            res[r].sent = 1 =>
                /\ res'[r].sent = 1
                /\ res'[r].headersSent
                /\ res'[r].wireStatus = res[r].wireStatus
                /\ res'[r].headers = res[r].headers
                /\ res'[r].body = res[r].body]_vars

\* C35 witness: the response of the delegate was written and the request
\* timer fired afterwards
C35_Witness ==
    \E r \in Reqs :
        /\ req[r].pc = "done"
        /\ res[r].sent = 1
        /\ req[r].timedOut
        /\ res[r].wireStatus = 200

\* the positions of an event in the history of a request
EventsAt(r, event) == {i \in 1..Len(hist[r]) : hist[r][i] = event}

\* C36: a request holds an admission lease only between the admission test
\* of processRequest and that call's exit.  A connection that is rate-limited
\* or still collecting its body, and one aborted (408, 413, stream error)
\* before its body ended, has never incremented concurrentRequests; the
\* counter is the number of requests inside processRequest, and it is only
\* incremented by the 'end' of a request that was not aborted.
C36_LeaseOnlyInsideProcessRequest ==
    /\ [](/\ concurrentRequests = Cardinality({r \in Reqs : req[r].pc = "delegating"})
          /\ \A r \in Reqs :
                /\ req[r].pc \in {"idle", "collecting", "limited"} => proc[r].acquired = 0
                /\ (\E i \in EventsAt(r, "Aborted") :
                       \A j \in EventsAt(r, "Admitted") : i < j)
                   => proc[r].acquired = 0)
    /\ [][\A r \in Reqs :
            proc'[r].acquired > proc[r].acquired =>
                /\ req[r].pc = "collecting"
                /\ ~req[r].requestAborted
                /\ req'[r].pc \in {"delegating", "done"}]_vars
    /\ [][concurrentRequests' > concurrentRequests =>
            \E r \in Reqs : /\ req[r].pc = "collecting"
                            /\ ~req[r].requestAborted
                            /\ req'[r].pc = "delegating"]_vars

\* C36 witness: one connection aborted with 413 whose end came afterwards,
\* one rate-limited, one being delegated, and the counter at one
C36_Witness ==
    \E r1, r2, r3 \in Reqs :
        /\ req[r1].destroyed /\ res[r1].wireStatus = 413 /\ req[r1].pc = "done"
        /\ req[r2].pc = "limited"
        /\ req[r3].pc = "delegating"
        /\ concurrentRequests = 1

\* the table after the first i calls of the log, made at their times with
\* no sweep in between
RECURSIVE TableWithoutSweep(_)
TableWithoutSweep(i) ==
    IF i = 0 THEN <<>>
    ELSE checkRateLimit(TableWithoutSweep(i - 1), calls[i].ip, calls[i].t).map

\* C37: the periodic sweep never changes a decision of the rate limiter:
\* the result of every call made with sweeps run at arbitrary times is the
\* result the same call has when the same timed calls are made with no
\* sweep at all.
C37_SweepKeepsDecisions ==
    \A i \in 1..Len(calls) :
        calls[i].allowed
          = checkRateLimit(TableWithoutSweep(i - 1), calls[i].ip, calls[i].t).allowed

\* C37 witness: a sweep has evicted an identity, and the other identity,
\* denied a call in its first window, was allowed a call when that window
\* had become old enough to be evicted
C37_Witness ==
    \E ip, other \in IPs :
        LET cs == CallsOf(ip)
        IN  /\ CallsOf(other) # <<>>
            /\ other \notin DOMAIN rateLimitMap
            /\ \E i \in 1..Len(cs) : ~cs[i].allowed
            /\ cs[Len(cs)].allowed
            /\ cs[Len(cs)].t > cs[1].entry.resetTime + RATE_LIMIT_WINDOW

\* the table after the first k calls of the sequence cs, made at their times
\* with no other call and no sweep in between
RECURSIVE TableOfCalls(_, _)
TableOfCalls(cs, k) ==
    IF k = 0 THEN <<>>
    ELSE checkRateLimit(TableOfCalls(cs, k - 1), cs[k].ip, cs[k].t).map

\* C38: a call of checkRateLimit for one identity leaves the entry of every
\* other identity as it was, present or absent, and the results an identity
\* sees are those it would see if no other identity made any call.
C38_OwnEntryOnly ==
    /\ [][IsRateCall =>
            \A other \in IPs \ {calls'[Len(calls')].ip} :
                /\ other \in DOMAIN rateLimitMap' <=> other \in DOMAIN rateLimitMap
                /\ other \in DOMAIN rateLimitMap =>
                      rateLimitMap'[other] = rateLimitMap[other]]_vars
    /\ [](\A ip \in IPs :
            LET cs == CallsOf(ip)
            IN  \A k \in 1..Len(cs) :
                    cs[k].allowed
                      = checkRateLimit(TableOfCalls(cs, k - 1), ip, cs[k].t).allowed)

\* C38 witness: one identity was denied at its ceiling and the other was
\* allowed a call later in the same window
C38_Witness ==
    \E i, j \in 1..Len(calls) :
        /\ i < j
        /\ calls[i].ip # calls[j].ip
        /\ ~calls[i].allowed
        /\ calls[j].allowed
        /\ calls[j].t <= calls[i].entry.resetTime
        /\ calls[j].entry.count = RATE_LIMIT_MAX_REQUESTS

\* the step in which the 'end' listener of r writes the response text that
\* processRequest built from the delegate's envelope
WritesEnvelope(r) ==
    /\ req[r].pc = "delegating"
    /\ req'[r].pc = "done"
    /\ proc'[r].outcome = "envelope"
    /\ res[r].sent = 0
    /\ res'[r].sent = 1

\* C39: for every envelope formatHttpResponse accepts, the response written
\* to the client carries every value of every header of the envelope: a
\* header given several values reaches the client with all of them.
C39_EveryHeaderValueSent ==
    [][\A r \in Reqs :
         WritesEnvelope(r) =>
             LET envelope == extractJsonResponse(proc[r].fullResponse)
             IN  \A i \in 1..Len(envelope.headers) :
                     \A n \in 1..Len(envelope.headers[i][2]) :
                         /\ HasKey(res'[r].headers, ToLowerCase(envelope.headers[i][1]))
                         /\ Get(res'[r].headers, ToLowerCase(envelope.headers[i][1]))
                              = envelope.headers[i][2][n]]_vars

\* the envelope of the codec was accepted by formatHttpResponse and written
\* to the client with its own body, not replaced by the handler's 500
EnvelopeTransmitted ==
    /\ codec.kind = "transmit"
    /\ codec.done
    /\ codec.accepted
    /\ codec.res.sent = 1
    /\ codec.res.body = bodyStringOf(codec.envelope)

\* C40: for every envelope formatHttpResponse accepts and the gateway
\* transmits, the status code written to the client is the envelope's
\* preamble.status, whatever its version and reason are.
C40_StatusAsGiven ==
    EnvelopeTransmitted => codec.res.wireStatus = codec.envelope.preamble.status
====
